---- MODULE Spec2Model ----
(***************************************************************************)
(* DesktopAutoSort: the classifier (core/classifier.py), the preset store  *)
(* (core/presets.py) and the layout engine (core/layout.py), with the part *)
(* of organize_desktop (main.py) that feeds and applies the layout, and    *)
(* the application (main.py): organize_desktop step by step on the UI      *)
(* thread, the hotkey listener thread and the saved-layout store.          *)
(*                                                                         *)
(* Group and preset names are written in ASCII:                            *)
(*   "Shortcuts" = 快捷方式   "Folders" = 文件夹   "Docs" = 文档             *)
(*   "Images" = 图片          "Videos" = 视频      "Audio" = 音频            *)
(*   "Archives" = 压缩包      "Programs" = 程序    "System" = 系统图标       *)
(*   "Text" = 文本            "Web" = 网页         "Other" = 其他            *)
(*   merge ids: "Sys" = 系统, "Docs" = 文档, "Media" = 媒体, "Files" = 文件  *)
(*   "Custom: a" = 自定义: a  "User preset" = 用户自定义预设                 *)
(*   "_last" = _上次布局 (LayoutManager.LAST_LAYOUT_NAME)                   *)
(* Message titles: "Hint" = 提示, "Error" = 错误, "Done" = 完成,            *)
(*   "Restored" = 已恢复, "Saved" = 已保存; "critical" is the modal         *)
(*   QMessageBox.critical of _get_desktop_manager.                         *)
(* Cells are <<col, row>>, pixel positions are <<x, y>>, both as in the    *)
(* source; Python's 0-based indices are kept for cells and enumerate().    *)
(***************************************************************************)
EXTENDS Integers, Sequences, FiniteSets, TLC

VARIABLES
    groups,          \* Classifier.groups: the ordered list of IconGroup
    settings,        \* LayoutManager.settings (LayoutSettings)
    icons,           \* the desktop surface: the list get_desktop_icons() returns
    work_area,       \* MonitorInfo.work_area of the primary monitor
    icon_spacing,    \* what get_icon_spacing() returns
    phase,           \* "initial", "organized" (once), "reorganized" (twice)
    calc,            \* the last calculate_positions call: its inputs' origin and its result
    prev_positions,  \* the position map of the calculate_positions call before the last
    PRESETS,         \* presets.PRESETS: the in-memory catalog, preset id -> preset
    custom_presets,  \* the content of custom_presets.json
    classifier_data, \* the classifier document of the configuration
    ops,             \* how many operations have run
    last,            \* the last operation: its name, argument, return value and
                     \* the group list (or saved-layout list) it was called on
    desktop_manager, \* DesktopAutoSort.desktop_manager is not None
    current_preset,  \* config.get_current_preset()
    layouts_file,    \* the list under "layouts" in layouts.json
    stack,           \* the organize_desktop calls in progress on the UI thread,
                     \* the innermost last
    pending,         \* hotkey_triggered signals queued for the UI thread
    finished,        \* the organize_desktop call that returned last, until the
                     \* next one starts or a layout is saved or deleted
    restored,        \* the position map the last restore_layout asked of the surface
    again,           \* a second calculate_positions call on the inputs of the last
    given_origin     \* the grid_origin argument of a direct calculate_positions call

app_vars == <<desktop_manager, current_preset, layouts_file, stack, pending, finished,
              restored>>

vars == <<groups, settings, icons, work_area, icon_spacing, phase, calc, prev_positions,
          PRESETS, custom_presets, classifier_data, ops, last, desktop_manager,
          current_preset, layouts_file, stack, pending, finished, restored, again,
          given_origin>>

(***************************************************************************)
(* Bounds of the model.                                                    *)
(***************************************************************************)
MaxIcons == 3
MaxCols == 3
MaxRows == 2
MaxOps == 3
MaxPlaced == 5
MaxGridRows == 3

(***************************************************************************)
(* Python built-ins used by the source.                                    *)
(***************************************************************************)
\* No clamp: the second operand whatever the first is.
SecondOf(a, b) == b

Min(a, b) == IF a <= b THEN a ELSE b

Max(a, b) == IF a >= b THEN a ELSE b

\* sorted(items, key=...) with keys[i] the key of items[i], a pair of numbers
\* compared as Python compares tuples; the sort is stable: rank by key, ties
\* by position.
SortedBy(items, keys) ==
    LET n == Len(items)
        before(i, j) == \/ keys[i][1] < keys[j][1]
                        \/ keys[i][1] = keys[j][1] /\ keys[i][2] < keys[j][2]
        rank(i) == Cardinality({j \in 1..n :
                       \/ before(j, i)
                       \/ ~before(i, j) /\ j < i}) + 1
    IN  [p \in 1..n |-> items[CHOOSE i \in 1..n : rank(i) = p]]

\* str.lower() on the strings of the model.
Lower(s) ==
    CASE s = ".PDF" -> ".pdf"
      [] s = ".LNK" -> ".lnk"
      [] s = ".XYZ" -> ".xyz"
      [] OTHER -> s

(***************************************************************************)
(* core/classifier.py                                                      *)
(***************************************************************************)
IconGroup(name, extensions, enabled, is_folder_group, is_shortcut_group, is_system_group, priority, start_from_right, merge_group) ==
    [name |-> name, extensions |-> extensions, enabled |-> enabled,
     is_folder_group |-> is_folder_group, is_shortcut_group |-> is_shortcut_group,
     is_system_group |-> is_system_group, priority |-> priority,
     start_from_right |-> start_from_right, merge_group |-> merge_group]

\* The name classify() returns when no group matches.
FallbackName == "Other"

\* A match that does not look at the enabled flag.
matches_disabled_too(group, extension, is_folder, is_system) ==
    IF group.is_system_group THEN is_system
    ELSE IF group.is_folder_group THEN is_folder /\ ~is_system
    ELSE IF group.is_shortcut_group THEN Lower(extension) = ".lnk" /\ ~is_system
    ELSE Lower(extension) \in group.extensions /\ ~is_system

matches(group, extension, is_folder, is_system) ==
    IF ~group.enabled THEN FALSE
    ELSE IF group.is_system_group THEN is_system
    ELSE IF group.is_folder_group THEN is_folder /\ ~is_system
    ELSE IF group.is_shortcut_group THEN Lower(extension) = ".lnk" /\ ~is_system
    ELSE Lower(extension) \in group.extensions /\ ~is_system

classify(gs, extension, is_folder, is_system) ==
    LET hits == {i \in 1..Len(gs) : matches(gs[i], extension, is_folder, is_system)}
    IN  IF hits = {} THEN FallbackName
        ELSE gs[CHOOSE i \in hits : \A j \in hits : i <= j].name

classify_icons(gs, ics) ==
    LET result == {gs[i].name : i \in {j \in 1..Len(gs) : gs[j].enabled}}
        listOf(k) == SelectSeq(ics, LAMBDA icon :
                        classify(gs, icon.extension, icon.is_folder, icon.is_system_icon) = k)
    IN  [k \in {n \in result : listOf(n) # <<>>} |-> listOf(k)]

get_enabled_groups(gs) == SelectSeq(gs, LAMBDA g : g.enabled)

\* dict.get(key, default)
Get(d, key, default) == IF key \in DOMAIN d THEN d[key] ELSE default

\* A dict with no keys.
EmptyDict == <<>>

DEFAULT_GROUPS ==
    <<IconGroup("Shortcuts", {".lnk"}, TRUE, FALSE, TRUE, FALSE, 0, FALSE, ""),
      IconGroup("Folders", {}, TRUE, TRUE, FALSE, FALSE, 1, FALSE, ""),
      IconGroup("Docs", {".pdf", ".doc", ".docx", ".xls", ".xlsx", ".ppt", ".pptx",
                         ".txt", ".rtf", ".odt", ".ods", ".odp"},
                TRUE, FALSE, FALSE, FALSE, 2, FALSE, ""),
      IconGroup("Images", {".jpg", ".jpeg", ".png", ".gif", ".bmp", ".webp", ".svg",
                           ".ico", ".tiff", ".tif", ".psd", ".ai", ".raw"},
                TRUE, FALSE, FALSE, FALSE, 3, FALSE, ""),
      IconGroup("Videos", {".mp4", ".mkv", ".avi", ".mov", ".wmv", ".flv", ".webm",
                           ".m4v", ".mpg", ".mpeg", ".3gp"},
                TRUE, FALSE, FALSE, FALSE, 4, FALSE, ""),
      IconGroup("Audio", {".mp3", ".wav", ".flac", ".aac", ".ogg", ".wma", ".m4a",
                          ".aiff", ".ape"},
                TRUE, FALSE, FALSE, FALSE, 5, FALSE, ""),
      IconGroup("Archives", {".zip", ".rar", ".7z", ".tar", ".gz", ".bz2", ".xz",
                             ".iso", ".cab"},
                TRUE, FALSE, FALSE, FALSE, 6, FALSE, ""),
      IconGroup("Programs", {".exe", ".msi", ".bat", ".cmd", ".ps1", ".vbs"},
                TRUE, FALSE, FALSE, FALSE, 7, FALSE, ""),
      IconGroup("System", {}, TRUE, FALSE, FALSE, TRUE, 8, FALSE, ""),
      IconGroup("Other", {}, TRUE, FALSE, FALSE, FALSE, 999, FALSE, "")>>

\* ext.lower() if ext.startswith(".") else "." + ext.lower(), on the strings
\* of the model.
normalize_extension(ext) ==
    CASE ext = "xyz" -> ".xyz"
      [] ext = "XYZ" -> ".xyz"
      [] OTHER -> Lower(ext)

\* A sort by priority that turns groups of equal priority around.
sort_groups_reversing_ties(gs) ==
    SortedBy(gs, [i \in 1..Len(gs) |-> <<gs[i].priority, 0 - i>>])

\* self.groups.sort(key=lambda g: g.priority)
sort_groups(gs) == SortedBy(gs, [i \in 1..Len(gs) |-> <<gs[i].priority, 0>>])

add_group(gs, name, extensions, priority, start_from_right) ==
    sort_groups(Append(gs, IconGroup(name, {normalize_extension(e) : e \in extensions},
                                     TRUE, FALSE, FALSE, FALSE, priority,
                                     start_from_right, "")))

\* The index of the first group with the name, 0 when there is none.
group_index(gs, name) ==
    IF \E i \in 1..Len(gs) : gs[i].name = name
    THEN CHOOSE i \in 1..Len(gs) :
            gs[i].name = name /\ \A j \in 1..(i - 1) : gs[j].name # name
    ELSE 0

\* get_group(name) is not None
has_group(gs, name) == group_index(gs, name) # 0

remove_group(gs, name) ==
    LET i == group_index(gs, name)
    IN  IF i = 0 THEN gs ELSE SubSeq(gs, 1, i - 1) \o SubSeq(gs, i + 1, Len(gs))

set_group_enabled(gs, name, enabled) ==
    LET i == group_index(gs, name)
    IN  IF i = 0 THEN gs ELSE [gs EXCEPT ![i].enabled = enabled]

set_group_priority(gs, name, priority) ==
    LET i == group_index(gs, name)
    IN  IF i = 0 THEN gs ELSE sort_groups([gs EXCEPT ![i].priority = priority])

set_group_start_side(gs, name, start_from_right) ==
    LET i == group_index(gs, name)
    IN  IF i = 0 THEN gs ELSE [gs EXCEPT ![i].start_from_right = start_from_right]

\* ui/settings_window.py, GroupEditWidget._on_changed on the group at
\* position i: the four fields are set from the widgets and the extensions are
\* parsed again from their text when the group has an extension field.
on_changed(gs, i, enabled, name, start_from_right, merge_group) ==
    LET g == gs[i]
        ext_edit == ~g.is_folder_group /\ ~g.is_shortcut_group /\ ~g.is_system_group
    IN  [gs EXCEPT ![i] =
            [g EXCEPT !.enabled = enabled, !.name = name,
                      !.start_from_right = start_from_right,
                      !.merge_group = merge_group,
                      !.extensions = IF ext_edit
                                     THEN {normalize_extension(e) : e \in g.extensions}
                                     ELSE g.extensions]]

\* A document that leaves out the merge_group and start_from_right keys.
to_dict_without_placement(gs) ==
    [groups |-> [i \in 1..Len(gs) |->
        [name |-> gs[i].name, extensions |-> gs[i].extensions, enabled |-> gs[i].enabled,
         is_folder_group |-> gs[i].is_folder_group,
         is_shortcut_group |-> gs[i].is_shortcut_group,
         is_system_group |-> gs[i].is_system_group, priority |-> gs[i].priority]]]

\* The "extensions" list of a document is kept as the set of its elements.
to_dict(gs) ==
    [groups |-> [i \in 1..Len(gs) |->
        [name |-> gs[i].name, extensions |-> gs[i].extensions, enabled |-> gs[i].enabled,
         is_folder_group |-> gs[i].is_folder_group,
         is_shortcut_group |-> gs[i].is_shortcut_group,
         is_system_group |-> gs[i].is_system_group, priority |-> gs[i].priority,
         start_from_right |-> gs[i].start_from_right, merge_group |-> gs[i].merge_group]]]

from_dict(gs, data) ==
    IF "groups" \notin DOMAIN data THEN gs
    ELSE sort_groups([i \in 1..Len(data.groups) |->
            LET g_data == data.groups[i]
            IN  IconGroup(g_data.name, Get(g_data, "extensions", {}),
                          Get(g_data, "enabled", TRUE),
                          Get(g_data, "is_folder_group", FALSE),
                          Get(g_data, "is_shortcut_group", FALSE),
                          Get(g_data, "is_system_group", FALSE),
                          Get(g_data, "priority", 50),
                          Get(g_data, "start_from_right", FALSE),
                          Get(g_data, "merge_group", ""))])

(***************************************************************************)
(* core/presets.py                                                         *)
(***************************************************************************)
\* The built-in entries of PRESETS. A preset is a dict; the groups of a
\* built-in one carry only the keys the source writes.
BUILTIN_PRESETS ==
    [default |->
        [name |-> "Default mode", description |-> "system and shortcuts merged",
         groups |->
         <<[name |-> "System", is_system_group |-> TRUE, priority |-> 0, merge_group |-> "Sys"],
          [name |-> "Shortcuts", is_shortcut_group |-> TRUE, priority |-> 1, merge_group |-> "Sys"],
          [name |-> "Programs", extensions |-> {".exe", ".msi", ".bat", ".cmd", ".ps1"}, priority |->
               2, merge_group |-> ""],
          [name |-> "Folders", is_folder_group |-> TRUE, priority |-> 3, merge_group |-> ""],
          [name |-> "PDF", extensions |-> {".pdf"}, priority |-> 4, merge_group |-> ""],
          [name |-> "Word", extensions |-> {".doc", ".docx"}, priority |-> 5, merge_group |-> ""],
          [name |-> "Excel", extensions |-> {".xls", ".xlsx", ".csv"}, priority |-> 6, merge_group |->
               ""],
          [name |-> "PPT", extensions |-> {".ppt", ".pptx"}, priority |-> 7, merge_group |-> ""],
          [name |-> "Text", extensions |-> {".txt", ".rtf", ".md"}, priority |-> 8, merge_group |->
               ""],
          [name |-> "Images", extensions |-> {".jpg", ".jpeg", ".png", ".gif", ".bmp", ".webp",
               ".svg", ".ico"}, priority |-> 9, merge_group |-> ""],
          [name |-> "Videos", extensions |-> {".mp4", ".mkv", ".avi", ".mov", ".wmv", ".flv", ".webm",
               ".ts", ".rmvb"}, priority |-> 10, merge_group |-> ""],
          [name |-> "Audio", extensions |-> {".mp3", ".wav", ".flac", ".aac", ".ogg", ".wma", ".m4a"},
               priority |-> 11, merge_group |-> ""],
          [name |-> "Archives", extensions |-> {".zip", ".rar", ".7z", ".tar", ".gz"}, priority |->
               12, merge_group |-> ""],
          [name |-> "Web", extensions |-> {".html", ".htm", ".xml", ".xhtml", ".css", ".js"}, priority
               |-> 13, merge_group |-> ""],
          [name |-> "Other", extensions |-> {}, priority |-> 999, merge_group |-> ""]>>],
     compact |->
        [name |-> "Compact mode", description |-> "documents merged, media merged",
         groups |->
         <<[name |-> "System", is_system_group |-> TRUE, priority |-> 0, merge_group |-> "Sys"],
          [name |-> "Shortcuts", is_shortcut_group |-> TRUE, priority |-> 1, merge_group |-> "Sys"],
          [name |-> "Folders", is_folder_group |-> TRUE, priority |-> 2, merge_group |-> ""],
          [name |-> "Docs", extensions |-> {".pdf", ".doc", ".docx", ".xls", ".xlsx", ".ppt", ".pptx",
               ".txt", ".rtf"}, priority |-> 3, merge_group |-> "Docs"],
          [name |-> "Images", extensions |-> {".jpg", ".jpeg", ".png", ".gif", ".bmp", ".webp",
               ".svg", ".ico"}, priority |-> 4, merge_group |-> "Media"],
          [name |-> "Videos", extensions |-> {".mp4", ".mkv", ".avi", ".mov", ".wmv", ".flv",
               ".webm"}, priority |-> 5, merge_group |-> "Media"],
          [name |-> "Audio", extensions |-> {".mp3", ".wav", ".flac", ".aac", ".ogg", ".wma", ".m4a"},
               priority |-> 6, merge_group |-> "Media"],
          [name |-> "Archives", extensions |-> {".zip", ".rar", ".7z", ".tar", ".gz"}, priority |-> 7,
               merge_group |-> ""],
          [name |-> "Programs", extensions |-> {".exe", ".msi", ".bat", ".cmd", ".ps1"}, priority |->
               8, merge_group |-> ""],
          [name |-> "Other", extensions |-> {}, priority |-> 999, merge_group |-> ""]>>],
     by_extension |->
        [name |-> "By extension", description |-> "one group per extension found",
         dynamic |-> TRUE, groups |-> <<>>],
     minimal |->
        [name |-> "Minimal mode", description |-> "all files merged into one unit",
         groups |->
         <<[name |-> "System", is_system_group |-> TRUE, priority |-> 0, merge_group |-> "Sys"],
          [name |-> "Shortcuts", is_shortcut_group |-> TRUE, priority |-> 1, merge_group |-> "Sys"],
          [name |-> "Folders", is_folder_group |-> TRUE, priority |-> 2, merge_group |-> "Files"],
          [name |-> "Docs", extensions |-> {".pdf", ".doc", ".docx", ".xls", ".xlsx", ".ppt", ".pptx",
               ".txt", ".rtf"}, priority |-> 3, merge_group |-> "Files"],
          [name |-> "Images", extensions |-> {".jpg", ".jpeg", ".png", ".gif", ".bmp", ".webp",
               ".svg", ".ico"}, priority |-> 4, merge_group |-> "Files"],
          [name |-> "Videos", extensions |-> {".mp4", ".mkv", ".avi", ".mov", ".wmv", ".flv",
               ".webm"}, priority |-> 5, merge_group |-> "Files"],
          [name |-> "Audio", extensions |-> {".mp3", ".wav", ".flac", ".aac", ".ogg", ".wma", ".m4a"},
               priority |-> 6, merge_group |-> "Files"],
          [name |-> "Archives", extensions |-> {".zip", ".rar", ".7z", ".tar", ".gz"}, priority |-> 7,
               merge_group |-> "Files"],
          [name |-> "Programs", extensions |-> {".exe", ".msi", ".bat", ".cmd", ".ps1"}, priority |->
               8, merge_group |-> "Files"],
          [name |-> "Other", extensions |-> {}, priority |-> 999, merge_group |-> "Files"]>>]]

\* Extensions in the order sorted() gives them.
SortedExtensions == <<".pdf", ".txt", ".xyz">>

\* The extensions the scan of the desktop directories collects from the
\* extensions of the files there ("" for a file without one).
extensions_found(file_extensions) ==
    {Lower(ext) : ext \in {e \in file_extensions : e # "" /\ Lower(e) # ".lnk"}}

\* The groups _apply_dynamic_extension_preset appends to the emptied list.
apply_dynamic_extension_preset(file_extensions) ==
    LET found == extensions_found(file_extensions)
        sorted == SelectSeq(SortedExtensions, LAMBDA e : e \in found)
    IN  <<IconGroup("System", {}, TRUE, FALSE, FALSE, TRUE, 0, FALSE, "Sys"),
          IconGroup("Shortcuts", {}, TRUE, FALSE, TRUE, FALSE, 1, FALSE, "Sys"),
          IconGroup("Folders", {}, TRUE, TRUE, FALSE, FALSE, 2, FALSE, "")>>
        \o [i \in 1..Len(sorted) |->
               IconGroup(sorted[i], {sorted[i]}, TRUE, FALSE, FALSE, FALSE, 10 + i - 1,
                         FALSE, "")]
        \o <<IconGroup("Other", {}, TRUE, FALSE, FALSE, FALSE, 999, FALSE, "")>>

\* apply_preset: the group list it leaves and the value it returns.
apply_preset(presets, gs, preset_id, file_extensions) ==
    IF preset_id \notin DOMAIN presets THEN [groups |-> gs, ret |-> FALSE]
    ELSE LET preset == presets[preset_id]
         IN  IF Get(preset, "dynamic", FALSE)
             THEN IF preset_id = "by_extension"
                  THEN [groups |-> apply_dynamic_extension_preset(file_extensions),
                        ret |-> TRUE]
                  ELSE [groups |-> <<>>, ret |-> FALSE]
             ELSE [groups |-> [i \in 1..Len(preset.groups) |->
                       LET g_data == preset.groups[i]
                       IN  IconGroup(g_data.name, Get(g_data, "extensions", {}),
                                     Get(g_data, "enabled", TRUE),
                                     Get(g_data, "is_folder_group", FALSE),
                                     Get(g_data, "is_shortcut_group", FALSE),
                                     Get(g_data, "is_system_group", FALSE),
                                     Get(g_data, "priority", 50),
                                     FALSE,
                                     Get(g_data, "merge_group", ""))],
                   ret |-> TRUE]

\* groups_data of save_custom_preset and update_custom_preset.
groups_data(gs) == to_dict(gs).groups

\* A test that takes every id for a custom one.
is_custom_id_any(preset_id) == TRUE

\* preset_id.startswith("custom_"), on the ids of the model.
is_custom_id(preset_id) == preset_id \in {"custom_a", "custom_b"}

\* save_custom_preset writes presets[preset_id] = preset, to the file and to
\* PRESETS alike; presets is either of them.
save_custom_preset(presets, name, gs) ==
    IF name = "" THEN presets
    ELSE ("custom_" \o name :>
             [name |-> "Custom: " \o name, description |-> "User preset",
              groups |-> groups_data(gs)]) @@ presets

\* update_custom_preset's return value.
update_custom_preset_ok(catalog, preset_id) ==
    preset_id # "" /\ is_custom_id(preset_id) /\ preset_id \in DOMAIN catalog

\* An update that writes the preset under the display name of a new one.
update_custom_preset_renaming(presets, catalog, preset_id, gs) ==
    IF ~update_custom_preset_ok(catalog, preset_id) THEN presets
    ELSE (preset_id :>
             [name |-> "Custom: ", description |-> "User preset",
              groups |-> groups_data(gs)]) @@ presets

\* What update_custom_preset writes to presets (the file or PRESETS), the
\* name and description taken from the entry of PRESETS.
update_custom_preset(presets, catalog, preset_id, gs) ==
    IF ~update_custom_preset_ok(catalog, preset_id) THEN presets
    ELSE (preset_id :>
             [name |-> catalog[preset_id].name,
              description |-> Get(catalog[preset_id], "description", "User preset"),
              groups |-> groups_data(gs)]) @@ presets

\* delete_custom_preset on presets (the file or PRESETS).
delete_custom_preset(presets, preset_id) ==
    IF ~is_custom_id(preset_id) THEN presets
    ELSE [k \in DOMAIN presets \ {preset_id} |-> presets[k]]

(***************************************************************************)
(* core/layout.py                                                          *)
(***************************************************************************)
SortOrders == {"name_asc", "name_desc", "created_asc", "created_desc",
               "modified_asc", "modified_desc", "size_asc", "size_desc"}

\* A secondary key that reads the file's attribute under every sort order.
secondary_key_of_file(icon, sort_order) ==
    IF sort_order \in {"size_asc", "size_desc"} /\ icon.is_folder THEN 0
    ELSE icon.stat

\* get_sort_key's secondary key. An icon carries sortname, the rank of
\* name.lower(), and stat, the value os.stat gives for the attribute the order
\* reads (0 when the path is missing).
secondary_key(icon, sort_order) ==
    IF sort_order \in {"name_asc", "name_desc"} THEN icon.sortname
    ELSE IF sort_order \in {"size_asc", "size_desc"} /\ icon.is_folder THEN 0
    ELSE icon.stat

\* A sort that forgets the group priority and orders a whole unit by the
\* secondary key alone.
sort_icons_by_key_only(icons_with_priority, sort_order) ==
    LET key2(it) == secondary_key(it.icon, sort_order)
        reverse_secondary == sort_order \in {"name_desc", "created_desc",
                                             "modified_desc", "size_desc"}
        sorted_items == SortedBy(icons_with_priority,
                           [i \in 1..Len(icons_with_priority) |->
                               IF reverse_secondary
                               THEN <<0, 0 - key2(icons_with_priority[i])>>
                               ELSE <<0, key2(icons_with_priority[i])>>])
    IN  [p \in 1..Len(sorted_items) |-> sorted_items[p].icon]

\* icons_with_priority is a list of [priority, icon]; the result is a list of icons.
sort_icons(icons_with_priority, sort_order) ==
    LET key2(it) == secondary_key(it.icon, sort_order)
        sorted_items == SortedBy(icons_with_priority,
                           [i \in 1..Len(icons_with_priority) |->
                               <<icons_with_priority[i].priority,
                                 key2(icons_with_priority[i])>>])
        reverse_secondary == sort_order \in {"name_desc", "created_desc",
                                             "modified_desc", "size_desc"}
        n == Len(sorted_items)
        \* itertools.groupby: maximal runs of equal priority, each re-sorted
        \* by the secondary key with reverse=True (stable), then concatenated.
        runStart(i) == CHOOSE s \in 1..i :
                          /\ \A k \in s..i : sorted_items[k].priority = sorted_items[i].priority
                          /\ s = 1 \/ sorted_items[s-1].priority # sorted_items[i].priority
        runEnd(i) == CHOOSE e \in i..n :
                          /\ \A k \in i..e : sorted_items[k].priority = sorted_items[i].priority
                          /\ e = n \/ sorted_items[e+1].priority # sorted_items[i].priority
        run(i) == SubSeq(sorted_items, runStart(i), runEnd(i))
        \* sort(key=secondary, reverse=True) keeps the order of equal keys
        resorted(i) == SortedBy(run(i), [k \in 1..Len(run(i)) |-> <<0, 0 - key2(run(i)[k])>>])
    IN  IF reverse_secondary
        THEN [p \in 1..n |-> resorted(p)[p - runStart(p) + 1].icon]
        ELSE [p \in 1..n |-> sorted_items[p].icon]

NoCell == <<-1, -1>>

\* The cells range(...) x range(...) of the grid.
GridCells(max_cols, max_rows) == (0..(max_cols - 1)) \X (0..(max_rows - 1))

\* A search that hands back the cell it was started from without looking at
\* the occupied cells.
get_next_free_cell_unchecked(start_col, start_row, prefer_vertical, occupied_cells, max_cols, max_rows) ==
    <<start_col, start_row>>

\* The first free cell in the order the loops visit the cells, or NoCell.
get_next_free_cell(start_col, start_row, prefer_vertical, occupied_cells, max_cols, max_rows) ==
    LET visited ==
            IF prefer_vertical
            THEN {c \in GridCells(max_cols, max_rows) :
                     \/ c[1] = start_col /\ c[2] >= start_row
                     \/ c[1] # start_col}
            ELSE {c \in GridCells(max_cols, max_rows) :
                     \/ c[2] = start_row /\ c[1] >= start_col
                     \/ c[2] # start_row}
        \* position of a cell in the visiting order
        at(c) ==
            IF prefer_vertical
            THEN IF c[1] >= start_col
                 THEN (c[1] - start_col) * max_rows + c[2]
                 ELSE (max_cols - start_col + c[1]) * max_rows + c[2]
            ELSE IF c[2] >= start_row
                 THEN (c[2] - start_row) * max_cols + c[1]
                 ELSE (max_rows - start_row + c[2]) * max_cols + c[1]
        free == {c \in visited : c \notin occupied_cells}
    IN  IF free = {} THEN NoCell
        ELSE CHOOSE c \in free : \A d \in free : at(c) <= at(d)

\* The body of both placement loops after the preferred cell is known:
\* take it if free, else the next free cell, else skip the icon.
place_icon(ctx, st, icon, group_id, preferred, prefer_vertical) ==
    LET cell == IF preferred \notin st.occupied_cells THEN preferred
                ELSE get_next_free_cell(preferred[1], preferred[2], prefer_vertical,
                                        st.occupied_cells, ctx.max_cols, ctx.max_rows)
        entry == [name |-> icon.name, unit |-> group_id, preferred |-> preferred,
                  cell |-> cell]
    IN  IF cell = NoCell
        THEN [st EXCEPT !.log = Append(@, entry)]
        ELSE [st EXCEPT
                !.positions = (icon.name :> <<ctx.origin_x + cell[1] * ctx.h_spacing,
                                              ctx.origin_y + cell[2] * ctx.v_spacing>>) @@ @,
                !.occupied_cells = @ \cup {cell},
                !.log = Append(@, entry)]

RECURSIVE place_vertical(_, _, _, _, _, _)
\* for i, icon in enumerate(sorted_icons), vertical branch, from index i on
place_vertical(ctx, st, group_id, sorted_icons, group_start_col, i) ==
    IF i >= Len(sorted_icons) THEN st
    ELSE LET col_offset == i \div ctx.max_rows
             row_idx == i % ctx.max_rows
             preferred_col == IF ctx.from_right
                              THEN Max(0, group_start_col - col_offset)
                              ELSE Min(ctx.max_cols - 1, group_start_col + col_offset)
         IN  place_vertical(ctx,
                 place_icon(ctx, st, sorted_icons[i + 1], group_id,
                            <<preferred_col, row_idx>>, TRUE),
                 group_id, sorted_icons, group_start_col, i + 1)

\* A cursor that advances one column per icon.
cols_used_per_icon(n, max_rows) == Max(1, n)

\* A cursor that advances one column per unit.
cols_used_one(n, max_rows) == 1

\* Columns a unit of n icons takes: at least one.
cols_used(n, max_rows) == Max(1, (n + max_rows - 1) \div max_rows)

\* A cursor that advances one row per unit.
rows_used_one(n, max_cols) == 1

\* Rows a unit of n icons takes: at least one.
rows_used(n, max_cols) == Max(1, (n + max_cols - 1) \div max_cols)

RECURSIVE vertical_layout(_, _, _, _, _)
\* for group_id, icons in group_list, from the k-th unit on
vertical_layout(ctx, st, group_list, k, current_col) ==
    IF k > Len(group_list) THEN st
    ELSE LET sorted_icons == sort_icons(group_list[k].icons, ctx.sort_order)
             placed == place_vertical(ctx, st, group_list[k].id, sorted_icons, current_col, 0)
             used == cols_used(Len(sorted_icons), ctx.max_rows)
             next_col == IF ctx.from_right
                         THEN Max(0, current_col - used)
                         ELSE Min(ctx.max_cols - 1, current_col + used)
         IN  vertical_layout(ctx, [placed EXCEPT !.cursors = Append(@, next_col)],
                             group_list, k + 1, next_col)

RECURSIVE place_horizontal(_, _, _, _, _, _)
\* for i, icon in enumerate(sorted_icons), horizontal branch, from index i on
place_horizontal(ctx, st, group_id, sorted_icons, group_start_row, i) ==
    IF i >= Len(sorted_icons) THEN st
    ELSE LET row_offset == i \div ctx.max_cols
             col_idx == i % ctx.max_cols
             preferred_row == Min(ctx.max_rows - 1, group_start_row + row_offset)
             preferred_col == IF ctx.from_right
                              THEN ctx.max_cols - 1 - col_idx
                              ELSE col_idx
         IN  place_horizontal(ctx,
                 place_icon(ctx, st, sorted_icons[i + 1], group_id,
                            <<preferred_col, preferred_row>>, FALSE),
                 group_id, sorted_icons, group_start_row, i + 1)

RECURSIVE horizontal_layout(_, _, _, _, _)
\* for group_id, icons in merged_groups, from the k-th unit on
horizontal_layout(ctx, st, merged_groups, k, current_row) ==
    IF k > Len(merged_groups) THEN st
    ELSE LET sorted_icons == sort_icons(merged_groups[k].icons, ctx.sort_order)
             placed == place_horizontal(ctx, st, merged_groups[k].id, sorted_icons, current_row, 0)
             used == rows_used(Len(sorted_icons), ctx.max_cols)
             next_row == Min(ctx.max_rows - 1, current_row + used)
         IN  horizontal_layout(ctx, [placed EXCEPT !.cursors = Append(@, next_row)],
                               merged_groups, k + 1, next_row)

\* Groups that have icons, in list order, each with its icon list.
active_groups(classified_icons, gs) ==
    LET act == SelectSeq(gs, LAMBDA g : /\ g.name \in DOMAIN classified_icons
                                        /\ classified_icons[g.name] # <<>>)
    IN  [i \in 1..Len(act) |-> [group |-> act[i], icons |-> classified_icons[act[i].name]]]

RECURSIVE concat_tagged(_, _, _)
\* the (g.priority, icon) pairs of every active group whose merge_group is merge_id
concat_tagged(active, merge_id, j) ==
    IF j > Len(active) THEN <<>>
    ELSE (IF active[j].group.merge_group = merge_id
          THEN [n \in 1..Len(active[j].icons) |->
                   [priority |-> active[j].group.priority, icon |-> active[j].icons[n]]]
          ELSE <<>>) \o concat_tagged(active, merge_id, j + 1)

\* A resolution that makes a unit of every active group, merged or not.
merge_groups_unmerged(active, k, processed_merge_ids) ==
    [n \in 1..(Len(active) - k + 1) |->
        LET a == active[k + n - 1]
        IN  [id |-> a.group.name,
             icons |-> [i \in 1..Len(a.icons) |->
                          [priority |-> a.group.priority, icon |-> a.icons[i]]]]]

RECURSIVE merge_groups(_, _, _)
\* merged_groups: the placement units [id, icons], from the k-th active group on
merge_groups(active, k, processed_merge_ids) ==
    IF k > Len(active) THEN <<>>
    ELSE LET merge_id == active[k].group.merge_group
         IN  IF merge_id # "" /\ merge_id \notin processed_merge_ids
             THEN <<[id |-> merge_id, icons |-> concat_tagged(active, merge_id, 1)]>>
                  \o merge_groups(active, k + 1, processed_merge_ids \cup {merge_id})
             ELSE IF merge_id = ""
             THEN <<[id |-> active[k].group.name,
                     icons |-> [n \in 1..Len(active[k].icons) |->
                                  [priority |-> active[k].group.priority,
                                   icon |-> active[k].icons[n]]]]>>
                  \o merge_groups(active, k + 1, processed_merge_ids)
             ELSE merge_groups(active, k + 1, processed_merge_ids)

Reverse(s) == [i \in 1..Len(s) |-> s[Len(s) + 1 - i]]

\* A vertical branch that places the units in priority order from either side.
group_list_not_reversed(merged_groups, from_right) == merged_groups

\* group_list of the vertical branch: the units in the order they are placed.
group_list_of(merged_groups, from_right) ==
    IF from_right THEN Reverse(merged_groups) ELSE merged_groups

\* grid_origin = None
NoOrigin == <<>>

\* The placement units in priority order, each as its id and the names of its
\* icons in the order sort_icons gives them.
unit_names(merged_groups, sort_order) ==
    [j \in 1..Len(merged_groups) |->
        LET sorted == sort_icons(merged_groups[j].icons, sort_order)
        IN  [id |-> merged_groups[j].id, names |-> [i \in 1..Len(sorted) |-> sorted[i].name]]]

\* The result carries, besides the position map the source returns, the
\* occupied cells, the grid size, the origin, the units, the cursor after each
\* unit and a log of the placement loop: one entry per icon processed, in order,
\* with its unit, its preferred cell and the cell it got (NoCell when skipped).
calculate_positions(classified_icons, gs, wa, spacing, grid_origin, s) ==
    LET h_spacing == spacing[1]
        v_spacing == spacing[2]
        origin == IF grid_origin # NoOrigin THEN grid_origin
                  ELSE <<wa[1] + s.margin_left, wa[2] + s.margin_top>>
        active == active_groups(classified_icons, gs)
        merged_groups == merge_groups(active, 1, {})
        available_height == wa[4] - wa[2] - s.margin_top - s.margin_bottom
        available_width == wa[3] - wa[1] - s.margin_left - s.margin_right
        max_rows == Max(1, available_height \div v_spacing)
        max_cols == Max(1, available_width \div h_spacing)
        ctx == [origin_x |-> origin[1], origin_y |-> origin[2],
                h_spacing |-> h_spacing, v_spacing |-> v_spacing,
                max_cols |-> max_cols, max_rows |-> max_rows,
                from_right |-> s.start_from_right, sort_order |-> s.sort_order]
        empty == [positions |-> <<>>, occupied_cells |-> {}, log |-> <<>>, cursors |-> <<>>,
                  max_cols |-> max_cols, max_rows |-> max_rows, origin |-> origin,
                  units |-> <<>>]
        placed == IF Len(active) = 0 THEN empty
                  ELSE IF s.direction = "vertical"
                  THEN vertical_layout(ctx, empty,
                                       group_list_of(merged_groups, s.start_from_right),
                                       1, IF s.start_from_right THEN max_cols - 1 ELSE 0)
                  ELSE horizontal_layout(ctx, empty, merged_groups, 1, 0)
    IN  [placed EXCEPT !.units = unit_names(merged_groups, s.sort_order)]

(***************************************************************************)
(* core/layout.py: the saved-layout store. A SavedLayout is its name and   *)
(* its positions; created_at, a time stamp no operation reads, is left     *)
(* out. layouts.json holds the list; a file that does not exist reads as   *)
(* the empty list.                                                         *)
(***************************************************************************)
LAST_LAYOUT_NAME == "_last"

NoLayout == [name |-> "", positions |-> <<>>, none |-> TRUE]

SavedLayout(name, positions) == [name |-> name, positions |-> positions]

\* {icon.name: (icon.x, icon.y) for icon in icons}: a later icon of the same
\* name overwrites an earlier one.
positions_of(ics) ==
    [n \in {ics[i].name : i \in 1..Len(ics)} |->
        LET k == CHOOSE i \in 1..Len(ics) :
                    /\ ics[i].name = n
                    /\ \A j \in 1..Len(ics) : ics[j].name = n => j <= i
        IN  <<ics[k].x, ics[k].y>>]

\* A store that appends every saved layout.
save_layout_appending(layouts, name, ics) ==
    Append(layouts, SavedLayout(name, positions_of(ics)))

\* save_layout: the list written to the file.
save_layout(layouts, name, ics) ==
    LET layout == SavedLayout(name, positions_of(ics))
        found == {i \in 1..Len(layouts) : layouts[i].name = name}
    IN  IF found # {}
        THEN [layouts EXCEPT ![CHOOSE i \in found : \A j \in found : i <= j] = layout]
        ELSE Append(layouts, layout)

get_layout(layouts, name) ==
    LET found == {i \in 1..Len(layouts) : layouts[i].name = name}
    IN  IF found = {} THEN NoLayout
        ELSE layouts[CHOOSE i \in found : \A j \in found : i <= j]

\* delete_layout: the list the file holds afterwards, and the return value.
delete_layout(layouts, name) ==
    SelectSeq(layouts, LAMBDA l : l.name # name)

delete_layout_ret(layouts, name) ==
    Len(delete_layout(layouts, name)) < Len(layouts)

(***************************************************************************)
(* core/desktop.py: the desktop surface, as far as organize uses it.       *)
(***************************************************************************)
DesktopIcon(name, x, y, is_folder, extension, is_system_icon, sortname, stat) ==
    [name |-> name, x |-> x, y |-> y, is_folder |-> is_folder, extension |-> extension,
     is_system_icon |-> is_system_icon, sortname |-> sortname, stat |-> stat]

SetMin(S) == CHOOSE m \in S : \A n \in S : m <= n

get_grid_origin(ics) ==
    IF Len(ics) = 0 THEN <<20, 2>>
    ELSE <<SetMin({ics[i].x : i \in 1..Len(ics)}), SetMin({ics[i].y : i \in 1..Len(ics)})>>

\* Every icon whose name is in the map is moved; the others stay where they are.
set_icon_positions(ics, pos) ==
    [i \in 1..Len(ics) |->
        IF ics[i].name \in DOMAIN pos
        THEN [ics[i] EXCEPT !.x = pos[ics[i].name][1], !.y = pos[ics[i].name][2]]
        ELSE ics[i]]

\* No organize_desktop call has returned yet.
NoAttempt == [pc |-> "none", read |-> FALSE, icons |-> <<>>, msgs |-> <<>>,
              saved |-> FALSE, wrote |-> FALSE, raised |-> "", groups_before |-> <<>>,
              layouts_before |-> <<>>, icons_before |-> <<>>]

\* restore_layout has asked nothing of the surface.
NoRequest == [asked |-> FALSE, positions |-> <<>>]

\* The application before any organize, hotkey or layout operation: what
\* DesktopAutoSort.__init__ leaves, with no layouts.json yet.
AppIdle ==
    /\ desktop_manager = FALSE
    /\ layouts_file = <<>>
    /\ stack = <<>>
    /\ pending = 0
    /\ finished = NoAttempt
    /\ restored = NoRequest

(***************************************************************************)
(* LayoutSpec: calculate_positions on bounded inputs, applied to the       *)
(* desktop and run once more, as two successive organize_desktop calls do. *)
(***************************************************************************)
LayoutSettings(direction, sort_order, start_from_right) ==
    [direction |-> direction, sort_order |-> sort_order,
     start_from_right |-> start_from_right,
     margin_left |-> 20, margin_top |-> 20, margin_right |-> 20, margin_bottom |-> 20]

\* The spec's example classifier: a folder group, a document group and the
\* catch-all, with every choice of merge_group.
LayoutGroups(m) ==
    <<IconGroup("Folders", {}, TRUE, TRUE, FALSE, FALSE, 0, FALSE, m[1]),
      IconGroup("Docs", {".pdf", ".txt"}, TRUE, FALSE, FALSE, FALSE, 1, FALSE, m[2]),
      IconGroup("Other", {}, TRUE, FALSE, FALSE, FALSE, 999, FALSE, m[3])>>

MergeChoices == {<<"", "", "">>, <<"M", "M", "">>, <<"", "M", "M">>,
                 <<"M", "", "M">>, <<"M", "M", "M">>}

DrawnSortOrders == {"name_desc", "size_asc"}

SortKeys == {0, 1}

HSpacing == 100
VSpacing == 50

\* The desktop list: nf folders, then np .pdf files, then nx files no group
\* lists. The i-th icon is named i and starts in one row from (20, 2); keys[i]
\* is the secondary sort key the drawn sort order reads.
DesktopOf(nf, np, nx, keys, s) ==
    [i \in 1..(nf + np + nx) |->
        DesktopIcon(i, 20 + (i - 1) * HSpacing, 2, i <= nf,
                    IF i <= nf THEN "" ELSE IF i <= nf + np THEN ".pdf" ELSE ".xyz",
                    FALSE,
                    IF s.sort_order \in {"name_asc", "name_desc"} THEN keys[i] ELSE 0,
                    IF s.sort_order \in {"name_asc", "name_desc"} THEN 0 ELSE keys[i])]

NoOp == [op |-> "none", arg |-> "", ret |-> FALSE, before |-> <<>>]

NoAgain == [called |-> FALSE, touched |-> FALSE, positions |-> <<>>]

NoCalc == [positions |-> <<>>, occupied_cells |-> {}, log |-> <<>>, cursors |-> <<>>,
           max_cols |-> 0, max_rows |-> 0, origin |-> NoOrigin, units |-> <<>>]

LayoutInit ==
    /\ \E m \in MergeChoices : groups = LayoutGroups(m)
    /\ \E d \in {"vertical", "horizontal"}, o \in DrawnSortOrders, r \in BOOLEAN :
          settings = LayoutSettings(d, o, r)
    /\ \E c \in 1..MaxCols, r \in 1..MaxRows :
          work_area = <<0, 0, 40 + c * HSpacing, 40 + r * VSpacing>>
    /\ icon_spacing = <<HSpacing, VSpacing>>
    /\ \E nf \in 0..MaxIcons, np \in 0..MaxIcons, nx \in 0..MaxIcons :
          /\ nf + np + nx <= MaxIcons
          /\ \E keys \in [1..(nf + np + nx) -> SortKeys] :
                icons = DesktopOf(nf, np, nx, keys, settings)
    /\ phase = "initial"
    /\ calc = NoCalc
    /\ prev_positions = <<>>
    \* calculate_positions reads no preset: the catalog is left out of these runs
    /\ PRESETS = EmptyDict
    /\ custom_presets = EmptyDict
    /\ classifier_data = EmptyDict
    /\ ops = 0
    /\ last = NoOp
    /\ current_preset = "default"
    /\ AppIdle
    /\ again = NoAgain
    /\ given_origin = NoOrigin

\* organize_desktop from the classification to the write-back.
Organize ==
    /\ phase \in {"initial", "organized"}
    /\ Len(icons) > 0
    /\ LET classified == classify_icons(groups, icons)
           grid_origin == get_grid_origin(icons)
           result == calculate_positions(classified, get_enabled_groups(groups), work_area,
                                         icon_spacing, grid_origin, settings)
       IN  /\ calc' = result
           /\ prev_positions' = calc.positions
           /\ icons' = set_icon_positions(icons, calc'.positions)
    /\ phase' = IF phase = "initial" THEN "organized" ELSE "reorganized"
    /\ UNCHANGED <<groups, settings, work_area, icon_spacing>>
    /\ UNCHANGED <<PRESETS, custom_presets, classifier_data, ops, last>>
    /\ UNCHANGED app_vars
    /\ UNCHANGED <<again, given_origin>>

LayoutNext == Organize

LayoutSpec == LayoutInit /\ [][LayoutNext]_vars

(***************************************************************************)
(* Two calls of calculate_positions on the same arguments (CallsSpec).     *)
(* get_sort_key reads os.stat when the call runs, so the file of an icon   *)
(* can change between the two calls while the arguments stay the same.     *)
(***************************************************************************)
\* What os.stat gives at the second call: the attribute of the last icon's
\* file has changed when touched, every other file is as it was.
restat(ics, touched) ==
    [i \in 1..Len(ics) |->
        IF touched /\ i = Len(ics) THEN [ics[i] EXCEPT !.stat = 1 - ics[i].stat] ELSE ics[i]]

\* The first call: calculate_positions on the drawn arguments.
Calculate ==
    /\ phase = "initial"
    /\ Len(icons) > 0
    /\ calc' = calculate_positions(classify_icons(groups, icons), get_enabled_groups(groups),
                                   work_area, icon_spacing, get_grid_origin(icons), settings)
    /\ phase' = "organized"
    /\ UNCHANGED <<groups, settings, icons, work_area, icon_spacing, prev_positions>>
    /\ UNCHANGED <<PRESETS, custom_presets, classifier_data, ops, last>>
    /\ UNCHANGED app_vars
    /\ UNCHANGED <<again, given_origin>>

\* The second call, on the same arguments.
CalculateAgain ==
    /\ phase = "organized"
    /\ ~again.called
    /\ \E touched \in BOOLEAN :
          LET files == restat(icons, touched)
              result == calculate_positions(classify_icons(groups, files),
                                            get_enabled_groups(groups), work_area,
                                            icon_spacing, get_grid_origin(icons), settings)
          IN  again' = [called |-> TRUE, touched |-> touched, positions |-> result.positions]
    /\ UNCHANGED <<groups, settings, icons, work_area, icon_spacing, phase, calc,
                   prev_positions>>
    /\ UNCHANGED <<PRESETS, custom_presets, classifier_data, ops, last>>
    /\ UNCHANGED app_vars
    /\ UNCHANGED given_origin

CallsNext == Calculate \/ CalculateAgain

CallsSpec == LayoutInit /\ [][CallsNext]_vars

(***************************************************************************)
(* calculate_positions called directly, with or without a grid origin and  *)
(* with the margins the settings document gives (GridSpec).                *)
(***************************************************************************)
\* LayoutManager.from_dict: the four margins as the document has them.
with_margins(s, left, top, right, bottom) ==
    [s EXCEPT !.margin_left = left, !.margin_top = top, !.margin_right = right,
              !.margin_bottom = bottom]

\* The margins of the documents: the defaults, and wider ones.
Margins == {20, 70}

GridInit ==
    /\ \E m \in MergeChoices : groups = LayoutGroups(m)
    /\ \E d \in {"vertical", "horizontal"}, r \in BOOLEAN, mg \in Margins :
          settings = with_margins(LayoutSettings(d, "name_asc", r), mg, mg, mg, mg)
    /\ \E c \in 1..MaxCols, r \in 1..MaxGridRows :
          work_area = <<0, 0, 40 + c * HSpacing, 40 + r * VSpacing>>
    /\ icon_spacing = <<HSpacing, VSpacing>>
    /\ \E nf \in 0..MaxPlaced, np \in 0..MaxPlaced, nx \in 0..MaxPlaced :
          /\ nf + np + nx <= MaxPlaced
          /\ icons = DesktopOf(nf, np, nx, [i \in 1..(nf + np + nx) |-> i], settings)
    /\ given_origin \in {NoOrigin, <<20, 2>>}
    /\ phase = "initial"
    /\ calc = NoCalc
    /\ prev_positions = <<>>
    /\ PRESETS = EmptyDict
    /\ custom_presets = EmptyDict
    /\ classifier_data = EmptyDict
    /\ ops = 0
    /\ last = NoOp
    /\ current_preset = "default"
    /\ AppIdle
    /\ again = NoAgain

\* calculate_positions on the drawn arguments.
Place ==
    /\ phase = "initial"
    /\ calc' = calculate_positions(classify_icons(groups, icons), get_enabled_groups(groups),
                                   work_area, icon_spacing, given_origin, settings)
    /\ phase' = "organized"
    /\ UNCHANGED <<groups, settings, icons, work_area, icon_spacing, prev_positions>>
    /\ UNCHANGED <<PRESETS, custom_presets, classifier_data, ops, last>>
    /\ UNCHANGED app_vars
    /\ UNCHANGED <<again, given_origin>>

\* The same call after the settings were loaded with other margins.
PlaceWithOtherMargins ==
    /\ phase = "organized"
    /\ ~again.called
    /\ \E mg \in Margins \ {settings.margin_left} :
          LET result == calculate_positions(classify_icons(groups, icons),
                                            get_enabled_groups(groups), work_area,
                                            icon_spacing, given_origin,
                                            with_margins(settings, mg, mg, mg, mg))
          IN  again' = [called |-> TRUE, touched |-> FALSE, positions |-> result.positions]
    /\ UNCHANGED <<groups, settings, icons, work_area, icon_spacing, phase, calc,
                   prev_positions>>
    /\ UNCHANGED <<PRESETS, custom_presets, classifier_data, ops, last>>
    /\ UNCHANGED app_vars
    /\ UNCHANGED given_origin

GridNext == Place \/ PlaceWithOtherMargins

GridSpec == GridInit /\ [][GridNext]_vars

(***************************************************************************)
(* The classifier and the preset store under the operations of the         *)
(* application: Classifier's methods, the group editor of the settings     *)
(* window, the preset functions and the classifier document of the         *)
(* configuration.                                                          *)
(***************************************************************************)
\* Group names the operations are called with.
TargetNames == {"Other", "Custom"}

\* Names a group is added or renamed with.
NewNames == {"Other", "Custom"}

\* Preset ids and names the preset functions are called with.
PresetIds == {"default", "compact", "by_extension", "minimal", "custom_a", "custom_b"}

\* Preset ids update_custom_preset and delete_custom_preset are called with.
EditedPresetIds == {"default", "custom_a", "custom_b"}

PresetNames == {"", "a"}

\* Extensions of the files found on the desktop by the by_extension scan.
ScannedFiles == {{}, {".PDF", ".lnk", ""}, {".xyz", ".txt"}}

LayoutDefaults == LayoutSettings("vertical", "name_asc", FALSE)

Init ==
    /\ groups = DEFAULT_GROUPS
    /\ PRESETS = BUILTIN_PRESETS
    /\ custom_presets = EmptyDict
    /\ classifier_data = EmptyDict
    /\ ops = 0
    /\ last = NoOp
    /\ settings = LayoutDefaults
    /\ icons = <<>>
    /\ work_area = <<0, 0, 40 + MaxCols * HSpacing, 40 + MaxRows * VSpacing>>
    /\ icon_spacing = <<HSpacing, VSpacing>>
    /\ phase = "initial"
    /\ calc = NoCalc
    /\ prev_positions = <<>>
    /\ current_preset = "default"
    /\ AppIdle
    /\ again = NoAgain
    /\ given_origin = NoOrigin

\* The model runs at most MaxOps operations.
CanStep == ops < MaxOps

\* What every operation of this part leaves alone, and the step count.
Step(op, arg, ret) ==
    /\ ops' = ops + 1
    /\ last' = [op |-> op, arg |-> arg, ret |-> ret, before |-> groups]
    /\ UNCHANGED <<settings, icons, work_area, icon_spacing, phase, calc, prev_positions>>
    /\ UNCHANGED app_vars
    /\ UNCHANGED <<again, given_origin>>

AddGroup ==
    /\ CanStep
    /\ \E name \in NewNames, extensions \in {{}, {"XYZ"}}, priority \in {50, 1000} :
           \* start_from_right is left at its default
           /\ groups' = add_group(groups, name, extensions, priority, FALSE)
           /\ Step("add_group", name, TRUE)
           /\ UNCHANGED <<PRESETS, custom_presets, classifier_data>>

RemoveGroup ==
    /\ CanStep
    /\ \E name \in TargetNames :
           /\ groups' = remove_group(groups, name)
           /\ Step("remove_group", name, has_group(groups, name))
           /\ UNCHANGED <<PRESETS, custom_presets, classifier_data>>

SetGroupEnabled ==
    /\ CanStep
    /\ \E name \in TargetNames, enabled \in BOOLEAN :
           /\ groups' = set_group_enabled(groups, name, enabled)
           /\ Step("set_group_enabled", name, has_group(groups, name))
           /\ UNCHANGED <<PRESETS, custom_presets, classifier_data>>

SetGroupPriority ==
    /\ CanStep
    /\ \E name \in TargetNames, priority \in {0, 1000} :
           /\ groups' = set_group_priority(groups, name, priority)
           /\ Step("set_group_priority", name, has_group(groups, name))
           /\ UNCHANGED <<PRESETS, custom_presets, classifier_data>>

SetGroupStartSide ==
    /\ CanStep
    /\ \E name \in TargetNames, start_from_right \in BOOLEAN :
           /\ groups' = set_group_start_side(groups, name, start_from_right)
           /\ Step("set_group_start_side", name, has_group(groups, name))
           /\ UNCHANGED <<PRESETS, custom_presets, classifier_data>>

\* GroupEditWidget._on_changed for the group at position i, after the user
\* changed the name or the merge id in its widgets.
EditGroup ==
    /\ CanStep
    /\ \E i \in 1..Len(groups) :
           /\ groups[i].name \in TargetNames
           /\ \E name \in NewNames \cup {groups[i].name},
                 merge_group \in {groups[i].merge_group, "Sys"} :
                 /\ name = groups[i].name \/ merge_group = groups[i].merge_group
                 /\ groups' = on_changed(groups, i, groups[i].enabled, name,
                                         groups[i].start_from_right, merge_group)
                 /\ Step("on_changed", name, TRUE)
           /\ UNCHANGED <<PRESETS, custom_presets, classifier_data>>

ApplyPreset ==
    /\ CanStep
    /\ \E preset_id \in PresetIds :
       \E file_extensions \in IF preset_id = "by_extension" THEN ScannedFiles ELSE {{}} :
           LET r == apply_preset(PRESETS, groups, preset_id, file_extensions)
           IN  /\ groups' = r.groups
               /\ Step("apply_preset", preset_id, r.ret)
               /\ UNCHANGED <<PRESETS, custom_presets, classifier_data>>

\* _save_settings: the classifier document is written to the configuration.
SaveSettings ==
    /\ CanStep
    /\ classifier_data' = to_dict(groups)
    /\ Step("to_dict", "", TRUE)
    /\ UNCHANGED <<groups, PRESETS, custom_presets>>

FromDict ==
    /\ CanStep
    /\ groups' = from_dict(groups, classifier_data)
    /\ Step("from_dict", "", "groups" \in DOMAIN classifier_data)
    /\ UNCHANGED <<PRESETS, custom_presets, classifier_data>>

SaveCustomPreset ==
    /\ CanStep
    /\ \E name \in PresetNames :
           /\ custom_presets' = save_custom_preset(custom_presets, name, groups)
           /\ PRESETS' = save_custom_preset(PRESETS, name, groups)
           /\ Step("save_custom_preset", name, name # "")
           /\ UNCHANGED <<groups, classifier_data>>

UpdateCustomPreset ==
    /\ CanStep
    /\ \E preset_id \in EditedPresetIds :
           /\ custom_presets' = update_custom_preset(custom_presets, PRESETS, preset_id, groups)
           /\ PRESETS' = update_custom_preset(PRESETS, PRESETS, preset_id, groups)
           /\ Step("update_custom_preset", preset_id, update_custom_preset_ok(PRESETS, preset_id))
           /\ UNCHANGED <<groups, classifier_data>>

DeleteCustomPreset ==
    /\ CanStep
    /\ \E preset_id \in EditedPresetIds :
           /\ custom_presets' = delete_custom_preset(custom_presets, preset_id)
           /\ PRESETS' = delete_custom_preset(PRESETS, preset_id)
           /\ Step("delete_custom_preset", preset_id, is_custom_id(preset_id))
           /\ UNCHANGED <<groups, classifier_data>>

Next ==
    \/ AddGroup
    \/ RemoveGroup
    \/ SetGroupEnabled
    \/ SetGroupPriority
    \/ SetGroupStartSide
    \/ EditGroup
    \/ ApplyPreset
    \/ SaveSettings
    \/ FromDict
    \/ SaveCustomPreset
    \/ UpdateCustomPreset
    \/ DeleteCustomPreset

Spec == Init /\ [][Next]_vars

(***************************************************************************)
(* AppSpec: the application. organize_desktop runs on the UI thread in     *)
(* steps, each of which can fail as the desktop surface, the monitor       *)
(* lookup and the layout file can; the hotkey listener thread only queues  *)
(* a signal; save, restore and delete act on the saved-layout store.       *)
(***************************************************************************)
\* "foo.lnk" and "foo.pdf" are both labelled "foo" when extensions are hidden:
\* the last desktop holds two icons of one name.
AppDesktops ==
    {<<>>,
     <<DesktopIcon(1, 120, 52, FALSE, ".pdf", FALSE, 0, 0)>>,
     <<DesktopIcon(1, 120, 2, FALSE, ".pdf", FALSE, 0, 0),
       DesktopIcon(2, 20, 52, TRUE, "", FALSE, 1, 0)>>,
     <<DesktopIcon(1, 20, 52, FALSE, ".lnk", FALSE, 0, 0),
       DesktopIcon(1, 120, 2, FALSE, ".pdf", FALSE, 0, 0)>>}

\* Layout names the user saves, restores and deletes.
LayoutNames == {"A", LAST_LAYOUT_NAME}

\* Extensions of the files the desktop directories hold, read off the icons.
desktop_files(ics) ==
    {ics[i].extension : i \in {j \in 1..Len(ics) : ~ics[j].is_folder /\ ~ics[j].is_system_icon}}

\* if not icons
no_icons_never(ics) == FALSE

no_icons(ics) == Len(ics) = 0

\* A new organize_desktop call, before its first statement.
Frame ==
    [pc |-> "start", read |-> FALSE, icons |-> <<>>, msgs |-> <<>>, saved |-> FALSE,
     wrote |-> FALSE, raised |-> "", groups_before |-> groups, layouts_before |-> layouts_file, icons_before |-> icons]

Top == stack[Len(stack)]

\* The innermost call goes on with frame f.
Continue(f) == stack' = [stack EXCEPT ![Len(stack)] = f]

\* The innermost call returns, having become frame f.
Return(f) ==
    /\ stack' = SubSeq(stack, 1, Len(stack) - 1)
    /\ finished' = f

\* except Exception as e: one tray message, and the call returns. The
\* exception was raised by the named step.
Caught(step) ==
    Return([Top EXCEPT !.pc = "failed", !.raised = step, !.msgs = Append(@, "Error")])

AppInit ==
    /\ icons \in AppDesktops
    /\ current_preset \in {"default", "by_extension"}
    /\ PRESETS = BUILTIN_PRESETS
    \* _load_settings applies the current preset; the by_extension scan of that
    \* time found no file or a .pdf file
    /\ \E startup_files \in IF current_preset = "by_extension" THEN {{}, {".pdf"}} ELSE {{}} :
          groups = apply_preset(PRESETS, <<>>, current_preset, startup_files).groups
    /\ settings = LayoutDefaults
    /\ work_area = <<0, 0, 40 + MaxCols * HSpacing, 40 + MaxRows * VSpacing>>
    /\ icon_spacing = <<HSpacing, VSpacing>>
    /\ phase = "initial"
    /\ calc = NoCalc
    /\ prev_positions = <<>>
    /\ custom_presets = EmptyDict
    /\ classifier_data = EmptyDict
    /\ ops = 0
    /\ last = NoOp
    /\ AppIdle
    /\ again = NoAgain
    /\ given_origin = NoOrigin

\* What the steps of organize_desktop and the hotkey leave alone.
AppFrame ==
    UNCHANGED <<settings, work_area, icon_spacing, phase, calc, prev_positions, PRESETS,
                custom_presets, classifier_data, current_preset, again, given_origin>>

\* The tray menu or the settings window asks for an organize: the signal is
\* delivered on the UI thread, which is running no handler.
OrganizeRequested ==
    /\ CanStep
    /\ stack = <<>>
    /\ stack' = <<Frame>>
    /\ ops' = ops + 1
    /\ restored' = NoRequest
    /\ finished' = NoAttempt
    /\ AppFrame
    /\ UNCHANGED <<groups, icons, last, desktop_manager, layouts_file, pending>>

\* _on_hotkey_triggered, on the listener thread: hotkey_triggered.emit() queues
\* the signal for the UI thread.
HotkeyTriggered ==
    /\ CanStep
    /\ pending' = pending + 1
    /\ ops' = ops + 1
    /\ AppFrame
    /\ UNCHANGED <<groups, icons, last, desktop_manager, layouts_file, stack, finished,
                   restored>>

\* The UI thread's event loop delivers a queued hotkey_triggered signal to
\* organize_desktop. The loop runs when no handler does, and inside the modal
\* QMessageBox.critical of _get_desktop_manager.
DeliverHotkey ==
    /\ pending > 0
    /\ IF stack = <<>> THEN TRUE ELSE Top.pc = "dialog"
    /\ pending' = pending - 1
    /\ stack' = Append(stack, Frame)
    /\ restored' = NoRequest
    /\ finished' = NoAttempt
    /\ AppFrame
    /\ UNCHANGED <<groups, icons, last, desktop_manager, layouts_file, ops>>

\* dm = self._get_desktop_manager(): DesktopIconManager() finds the desktop
\* ListView or raises RuntimeError, and then the modal error box opens.
GetDesktopManager ==
    /\ stack # <<>>
    /\ Top.pc = "start"
    /\ \E found \in IF desktop_manager THEN {TRUE} ELSE BOOLEAN :
          IF found
          THEN /\ desktop_manager' = TRUE
               /\ Continue([Top EXCEPT !.pc = "read"])
          ELSE /\ desktop_manager' = FALSE
               /\ Continue([Top EXCEPT !.pc = "dialog", !.msgs = Append(@, "critical")])
    /\ AppFrame
    /\ UNCHANGED <<groups, icons, last, layouts_file, pending, finished, restored, ops>>

\* The user closes the error box: _get_desktop_manager re-raises, and
\* organize_desktop catches.
CloseDialog ==
    /\ stack # <<>>
    /\ Top.pc = "dialog"
    /\ Caught("desktop manager")
    /\ AppFrame
    /\ UNCHANGED <<groups, icons, last, desktop_manager, layouts_file, pending, restored,
                   ops>>

\* icons = dm.get_desktop_icons(), which reads the surface or raises, and the
\* early return on an empty list.
ReadIcons ==
    /\ stack # <<>>
    /\ Top.pc = "read"
    /\ \E read \in BOOLEAN :
          IF ~read THEN Caught("icon read")
          ELSE IF no_icons(icons)
          THEN Return([Top EXCEPT !.pc = "empty", !.read = TRUE, !.icons = icons,
                                  !.msgs = Append(@, "Hint")])
          ELSE /\ Continue([Top EXCEPT !.pc = "save", !.read = TRUE, !.icons = icons])
               /\ UNCHANGED finished
    /\ AppFrame
    /\ UNCHANGED <<groups, icons, last, desktop_manager, layouts_file, pending, restored,
                   ops>>

\* self.layout_manager.save_layout(LAST_LAYOUT_NAME, icons): the file is read
\* and written, or an OSError leaves the call.
AutoSave ==
    /\ stack # <<>>
    /\ Top.pc = "save"
    /\ \E written \in BOOLEAN :
          IF written
          THEN /\ layouts_file' = save_layout(layouts_file, LAST_LAYOUT_NAME, Top.icons)
               /\ last' = [op |-> "save_layout", arg |-> LAST_LAYOUT_NAME, ret |-> TRUE,
                           before |-> layouts_file, icons |-> Top.icons]
               /\ Continue([Top EXCEPT !.pc = "arrange", !.saved = TRUE])
               /\ UNCHANGED finished
          ELSE /\ Caught("layout file")
               /\ UNCHANGED <<layouts_file, last>>
    /\ AppFrame
    /\ UNCHANGED <<groups, icons, desktop_manager, pending, restored, ops>>

\* The rest of organize_desktop: the by_extension rescan, the classification,
\* the monitor lookup, calculate_positions and the write to the surface.
Arrange ==
    /\ stack # <<>>
    /\ Top.pc = "arrange"
    /\ LET rescanned == IF current_preset = "by_extension"
                        THEN apply_preset(PRESETS, groups, "by_extension",
                                          desktop_files(icons)).groups
                        ELSE groups
           classified == classify_icons(rescanned, Top.icons)
           positions == calculate_positions(classified, get_enabled_groups(rescanned),
                                            work_area, icon_spacing, get_grid_origin(icons),
                                            settings).positions
       IN  /\ groups' = rescanned
           /\ \E monitor \in {"found", "none", "raises"}, write \in BOOLEAN :
                 IF monitor = "none"
                 THEN /\ write
                      /\ Return([Top EXCEPT !.pc = "no monitor", !.msgs = Append(@, "Error")])
                      /\ UNCHANGED icons
                 ELSE IF monitor = "raises" \/ ~write
                 THEN /\ monitor = "raises" => write
                      /\ Caught(IF monitor = "raises" THEN "monitor" ELSE "position write")
                      /\ UNCHANGED icons
                 ELSE /\ icons' = set_icon_positions(icons, positions)
                      /\ Return([Top EXCEPT !.pc = "done", !.wrote = TRUE,
                                            !.msgs = Append(@, "Done")])
    /\ AppFrame
    /\ UNCHANGED <<last, desktop_manager, layouts_file, pending, restored, ops>>

\* restore_layout(name), from the tray or the settings window.
RestoreLayout ==
    /\ CanStep
    /\ stack = <<>>
    /\ \E name \in LayoutNames :
          LET layout == get_layout(layouts_file, name)
          IN  IF layout = NoLayout
              THEN /\ restored' = NoRequest
                   /\ last' = [op |-> "restore_layout", arg |-> name, ret |-> FALSE,
                               before |-> layouts_file, icons |-> icons]
                   /\ UNCHANGED <<icons, desktop_manager>>
              ELSE \E found \in IF desktop_manager THEN {TRUE} ELSE BOOLEAN :
                      /\ desktop_manager' = found
                      /\ restored' = IF found
                                     THEN [asked |-> TRUE, positions |-> layout.positions]
                                     ELSE NoRequest
                      /\ icons' = IF found THEN set_icon_positions(icons, layout.positions)
                                  ELSE icons
                      /\ last' = [op |-> "restore_layout", arg |-> name, ret |-> found,
                                  before |-> layouts_file, icons |-> icons]
    /\ ops' = ops + 1
    /\ AppFrame
    /\ UNCHANGED <<groups, layouts_file, stack, pending, finished>>

\* save_layout(name) of the application, from the tray: the icons are read
\* and LayoutManager.save_layout stores them, unless there is none.
SaveLayout ==
    /\ CanStep
    /\ stack = <<>>
    /\ \E name \in LayoutNames, found \in IF desktop_manager THEN {TRUE} ELSE BOOLEAN :
          /\ desktop_manager' = found
          /\ IF found /\ ~no_icons(icons)
             THEN /\ layouts_file' = save_layout(layouts_file, name, icons)
                  /\ last' = [op |-> "save_layout", arg |-> name, ret |-> TRUE,
                              before |-> layouts_file, icons |-> icons]
             ELSE /\ last' = [op |-> "save_layout", arg |-> name, ret |-> FALSE,
                              before |-> layouts_file, icons |-> icons]
                  /\ UNCHANGED layouts_file
    /\ ops' = ops + 1
    /\ finished' = NoAttempt
    /\ restored' = NoRequest
    /\ AppFrame
    /\ UNCHANGED <<groups, icons, stack, pending>>

\* LayoutsTab._on_delete: delete_layout(name) for a listed layout.
DeleteLayout ==
    /\ CanStep
    /\ stack = <<>>
    /\ \E name \in LayoutNames :
          /\ get_layout(layouts_file, name) # NoLayout
          /\ layouts_file' = delete_layout(layouts_file, name)
          /\ last' = [op |-> "delete_layout", arg |-> name,
                      ret |-> delete_layout_ret(layouts_file, name),
                      before |-> layouts_file, icons |-> icons]
    /\ ops' = ops + 1
    /\ finished' = NoAttempt
    /\ restored' = NoRequest
    /\ AppFrame
    /\ UNCHANGED <<groups, icons, desktop_manager, stack, pending>>

\* The user empties the desktop: the surface holds no icon any more.
DesktopEmptied ==
    /\ CanStep
    /\ stack = <<>>
    /\ icons # <<>>
    /\ icons' = <<>>
    /\ ops' = ops + 1
    /\ AppFrame
    /\ UNCHANGED <<groups, last, desktop_manager, layouts_file, stack, pending, finished,
                   restored>>

AppNext ==
    \/ OrganizeRequested
    \/ HotkeyTriggered
    \/ DeliverHotkey
    \/ GetDesktopManager
    \/ CloseDialog
    \/ ReadIcons
    \/ AutoSave
    \/ Arrange
    \/ RestoreLayout
    \/ SaveLayout
    \/ DeleteLayout
    \/ DesktopEmptied

AppSpec == AppInit /\ [][AppNext]_vars

(***************************************************************************)
(* Vocabulary of the claims about calculate_positions.                     *)
(***************************************************************************)
Calculated == phase # "initial"

\* The priority of the group an icon was classified into.
PriorityOf(name) ==
    LET icon == icons[CHOOSE i \in 1..Len(icons) : icons[i].name = name]
        gname == classify(groups, icon.extension, icon.is_folder, icon.is_system_icon)
    IN  groups[CHOOSE i \in 1..Len(groups) : groups[i].name = gname].priority

\* Where each processed icon stands in the log, and the cell it got.
LogIndexes == [n \in {calc.log[k].name : k \in 1..Len(calc.log)} |->
                  CHOOSE k \in 1..Len(calc.log) : calc.log[k].name = n]

Cells == [n \in {calc.log[k].name : k \in 1..Len(calc.log)} |->
             calc.log[CHOOSE k \in 1..Len(calc.log) : calc.log[k].name = n].cell]

OccupiedBefore(k) == {calc.log[j].cell : j \in 1..(k - 1)} \ {NoCell}

Ceil(n, d) == CHOOSE q \in 0..n : q * d >= n /\ (q - 1) * d < n

RECURSIVE ColsOfFirst(_, _, _)
\* sum of ceil(n_m / maxRows) over the first j units
ColsOfFirst(units, max_rows, j) ==
    IF j = 0 THEN 0
    ELSE ColsOfFirst(units, max_rows, j - 1) + Ceil(Len(units[j].names), max_rows)

UnitsFit == ColsOfFirst(calc.units, calc.max_rows, Len(calc.units)) <= calc.max_cols

\* The spec's example: Folders (priority 0) and Docs (priority 1, .pdf/.txt),
\* 3 folders and 2 pdfs, VERTICAL, maxRows = 4, spacing (100, 50), origin (0, 0).
ExampleGroups ==
    <<IconGroup("Folders", {}, TRUE, TRUE, FALSE, FALSE, 0, FALSE, ""),
      IconGroup("Docs", {".pdf", ".txt"}, TRUE, FALSE, FALSE, FALSE, 1, FALSE, "")>>

ExampleIcons ==
    [i \in 1..5 |-> DesktopIcon(i, 0, 0, i <= 3, IF i <= 3 THEN "" ELSE ".pdf", FALSE, i, 0)]

ExamplePositions(from_right, cols) ==
    calculate_positions(classify_icons(ExampleGroups, ExampleIcons),
                        get_enabled_groups(ExampleGroups),
                        <<0, 0, 40 + cols * 100, 40 + 4 * 50>>, <<100, 50>>, <<0, 0>>,
                        LayoutSettings("vertical", "name_asc", from_right)).positions

\* maxCols = 5, from the right: Folders in column 3, Docs in column 4.
ExampleFromRight ==
    ExamplePositions(TRUE, 5) =
        [n \in 1..5 |-> IF n <= 3 THEN <<300, (n - 1) * 50>> ELSE <<400, (n - 4) * 50>>]

\* From the left: Folders in column 0, Docs in column 1.
ExampleFromLeft ==
    ExamplePositions(FALSE, 5) =
        [n \in 1..5 |-> IF n <= 3 THEN <<0, (n - 1) * 50>> ELSE <<100, (n - 4) * 50>>]

(***************************************************************************)
(* C1: calculate_positions never gives two icons the same (x, y): any two  *)
(* different names of the returned position map have different positions.  *)
(***************************************************************************)
C1_NoSharedCell ==
    \A a \in DOMAIN calc.positions : \A b \in DOMAIN calc.positions :
        a # b => calc.positions[a] # calc.positions[b]

\* An icon found its preferred cell taken and was moved to another cell.
C1_Witness ==
    /\ Calculated
    /\ \E k \in 1..Len(calc.log) :
          /\ calc.log[k].cell # NoCell
          /\ calc.log[k].cell # calc.log[k].preferred

(***************************************************************************)
(* C2: an icon is skipped by calculate_positions only when every cell of   *)
(* the grid is occupied at the moment it is processed, in both directions  *)
(* and for both values of start_from_right.                                *)
(***************************************************************************)
C2_DroppedOnlyWhenFull ==
    Calculated =>
        \A k \in 1..Len(calc.log) :
            calc.log[k].cell = NoCell =>
                OccupiedBefore(k) = GridCells(calc.max_cols, calc.max_rows)

\* What does hold: the same, outside HORIZONTAL with start_from_right.
DroppedOnlyWhenFull_Elsewhere ==
    (Calculated /\ ~(settings.direction = "horizontal" /\ settings.start_from_right)) =>
        \A k \in 1..Len(calc.log) :
            calc.log[k].cell = NoCell =>
                OccupiedBefore(k) = GridCells(calc.max_cols, calc.max_rows)

C5_Idempotent == phase = "reorganized" => calc.positions = prev_positions

\* What does hold: idempotence without start_from_right.
Idempotent_FromLeft ==
    (phase = "reorganized" /\ ~settings.start_from_right) => calc.positions = prev_positions

(***************************************************************************)
(* C6: VERTICAL, start_from_right false, units that fit: the i-th icon     *)
(* (0-indexed, sorted order) of the j-th unit is at column (sum over the   *)
(* earlier units m of ceil(n_m / maxRows)) + i div maxRows, row i mod      *)
(* maxRows, and at pixel origin + (col * h, row * v); the example gives    *)
(* (0,0), (0,50), (0,100) for the folders and (100,0), (100,50) for the    *)
(* pdfs.                                                                   *)
(***************************************************************************)
C6_ClosedForm ==
    /\ ExampleFromLeft
    /\ (Calculated /\ settings.direction = "vertical" /\ ~settings.start_from_right
           /\ UnitsFit) =>
          LET units == calc.units
              cell == Cells
          IN  \A j \in 1..Len(units) : \A i \in 0..(Len(units[j].names) - 1) :
                  LET name == units[j].names[i + 1]
                      col == ColsOfFirst(units, calc.max_rows, j - 1) + (i \div calc.max_rows)
                      row == i % calc.max_rows
                  IN  /\ name \in DOMAIN calc.positions
                      /\ cell[name] = <<col, row>>
                      /\ calc.positions[name] = <<calc.origin[1] + col * icon_spacing[1],
                                                  calc.origin[2] + row * icon_spacing[2]>>

\* Two units that fit, the first of them more than one column wide.
C6_Witness ==
    /\ Calculated /\ settings.direction = "vertical" /\ ~settings.start_from_right
    /\ Len(calc.units) >= 2 /\ UnitsFit
    /\ Len(calc.units[1].names) > calc.max_rows

(***************************************************************************)
(* C7: within a placement unit the icons are placed in ascending order of  *)
(* the priority of their own group, for every sort order: an icon of a     *)
(* group with a lower priority number is placed before every icon of a     *)
(* group of the same unit with a higher one.                               *)
(***************************************************************************)
C7_PriorityWithinUnit ==
    Calculated =>
        LET units == calc.units
            at == LogIndexes
            priority == [n \in DOMAIN at |-> PriorityOf(n)]
        IN  \A j \in 1..Len(units) :
                \A a \in 1..Len(units[j].names) : \A b \in 1..Len(units[j].names) :
                    priority[units[j].names[a]] < priority[units[j].names[b]]
                        => at[units[j].names[a]] < at[units[j].names[b]]

\* A merged unit under a descending order whose lower-priority-number group
\* holds an icon with a smaller secondary key than one of the other group.
C7_Witness ==
    /\ Calculated /\ settings.sort_order = "name_desc"
    /\ \E a \in 1..Len(icons) : \E b \in 1..Len(icons) :
          /\ PriorityOf(icons[a].name) < PriorityOf(icons[b].name)
          /\ icons[a].sortname < icons[b].sortname
          /\ icons[a].name \in DOMAIN calc.positions
          /\ icons[b].name \in DOMAIN calc.positions
          /\ \E j \in 1..Len(calc.units) :
                {icons[a].name, icons[b].name} \subseteq
                    {calc.units[j].names[i] : i \in 1..Len(calc.units[j].names)}

(***************************************************************************)
(* Vocabulary of the claims about the classifier and the preset store.     *)
(***************************************************************************)
\* One icon of each kind: a folder, a system icon, a shortcut, a document and
\* a file no default group lists.
TestIcons ==
    <<DesktopIcon(1, 0, 0, TRUE, "", FALSE, 1, 0),
      DesktopIcon(2, 0, 0, FALSE, "", TRUE, 2, 0),
      DesktopIcon(3, 0, 0, FALSE, ".lnk", FALSE, 3, 0),
      DesktopIcon(4, 0, 0, FALSE, ".pdf", FALSE, 4, 0),
      DesktopIcon(5, 0, 0, FALSE, ".xyz", FALSE, 5, 0)>>

\* How many times an icon occurs in the lists of a classify_icons result.
Occurrences(result, icon) ==
    Cardinality({<<k, j>> \in UNION {{k} \X (1..Len(result[k])) : k \in DOMAIN result} :
                    result[k][j] = icon})

MatchesNoGroup(gs, icon) ==
    \A i \in 1..Len(gs) : ~matches(gs[i], icon.extension, icon.is_folder, icon.is_system_icon)

\* The catch-all group is the one that carries the name classify falls back to.
IsCatchAll(g) == g.name = FallbackName

\* The IconGroup a group specification of a preset describes, field by field.
SpecifiedGroup(g_data) ==
    IconGroup(g_data.name, Get(g_data, "extensions", {}), Get(g_data, "enabled", TRUE),
              Get(g_data, "is_folder_group", FALSE), Get(g_data, "is_shortcut_group", FALSE),
              Get(g_data, "is_system_group", FALSE), Get(g_data, "priority", 50),
              Get(g_data, "start_from_right", FALSE), Get(g_data, "merge_group", ""))

\* The group lists that are "the preset's groups in the preset's order".
PresetGroupLists(preset_id) ==
    IF preset_id = "by_extension"
    THEN {apply_dynamic_extension_preset(f) : f \in ScannedFiles}
    ELSE {[i \in 1..Len(PRESETS[preset_id].groups) |->
              SpecifiedGroup(PRESETS[preset_id].groups[i])]}

(***************************************************************************)
(* C3: in every classifier state the group operations reach,               *)
(* classify_icons puts each icon of its input in exactly one list of its   *)
(* result, and an icon no group matches is in the list of the catch-all    *)
(* group.                                                                  *)
(***************************************************************************)
C3_EveryIconInOneGroup ==
    LET result == classify_icons(groups, TestIcons)
    IN  \A i \in 1..Len(TestIcons) :
            /\ Occurrences(result, TestIcons[i]) = 1
            /\ MatchesNoGroup(groups, TestIcons[i]) =>
                  /\ FallbackName \in DOMAIN result
                  /\ \E j \in 1..Len(result[FallbackName]) :
                        result[FallbackName][j] = TestIcons[i]

(***************************************************************************)
(* C8: after any sequence of group operations the list holds a catch-all   *)
(* group, no group has a larger priority than it, and every icon no other  *)
(* group matches is classified into it.                                    *)
(***************************************************************************)
C8_CatchAllKept ==
    /\ \E i \in 1..Len(groups) :
          /\ IsCatchAll(groups[i])
          /\ \A j \in 1..Len(groups) : groups[j].priority <= groups[i].priority
    /\ LET result == classify_icons(groups, TestIcons)
       IN  \A i \in 1..Len(TestIcons) :
               MatchesNoGroup(SelectSeq(groups, LAMBDA g : ~IsCatchAll(g)), TestIcons[i]) =>
                   /\ FallbackName \in DOMAIN result
                   /\ \E j \in 1..Len(result[FallbackName]) :
                         result[FallbackName][j] = TestIcons[i]

(***************************************************************************)
(* C9: after any sequence of group operations the names of the groups in   *)
(* the classifier's list are pairwise distinct.                            *)
(***************************************************************************)
C9_NamesDistinct ==
    \A i \in 1..Len(groups) : \A j \in 1..Len(groups) :
        i # j => groups[i].name # groups[j].name

(***************************************************************************)
(* C10: apply_preset is all-or-nothing: when it has returned, the group    *)
(* list is exactly the preset's groups in the preset's order and the       *)
(* return value is True, or the list is the one before the call and the    *)
(* return value is False.                                                  *)
(***************************************************************************)
C10_AllOrNothing ==
    last.op = "apply_preset" =>
        \/ last.ret /\ last.arg \in DOMAIN PRESETS /\ groups \in PresetGroupLists(last.arg)
        \/ ~last.ret /\ groups = last.before

\* What does hold of apply_preset: the same, up to the start_from_right of the
\* groups, which apply_preset sets to False.
AllOrNothing_UpToStartSide ==
    last.op = "apply_preset" =>
        LET reset(gs) == [i \in 1..Len(gs) |-> [gs[i] EXCEPT !.start_from_right = FALSE]]
        IN  \/ /\ last.ret /\ last.arg \in DOMAIN PRESETS
               /\ groups \in {reset(gs) : gs \in PresetGroupLists(last.arg)}
            \/ ~last.ret /\ groups = last.before

(***************************************************************************)
(* The application: claims on organize_desktop, the hotkey and the         *)
(* saved-layout store (AppSpec).                                           *)
(***************************************************************************)
\* C11: at most one organize operation is in progress at any time: the hotkey
\* callback only queues a signal for the UI thread, and an organize that is
\* triggered while another is running starts only after that one has returned.
C11_OneOrganizeAtATime == Len(stack) <= 1

\* The hotkey callback, on the listener thread, starts no organize_desktop
\* call: it leaves the calls in progress as they are.
HotkeyOnlyQueues == [][pending' > pending => stack' = stack]_vars

\* An organize_desktop call that starts while another has not returned starts
\* inside the error box of that one.
NestedOnlyInDialog ==
    \A i \in 1..(Len(stack) - 1) : stack[i].pc = "dialog"

\* The position map holds, for every icon of the list, the pair of its name
\* and its position, and nothing else.
HoldsPositionsOf(positions, ics) ==
    /\ DOMAIN positions = {ics[i].name : i \in 1..Len(ics)}
    /\ \A i \in 1..Len(ics) : positions[ics[i].name] = <<ics[i].x, ics[i].y>>

DistinctNames(ics) ==
    \A i, j \in 1..Len(ics) : ics[i].name = ics[j].name => i = j

\* The organize_desktop call that returned last wrote positions, and no
\* layout was saved or deleted since.
Organized == finished.pc = "done" /\ finished.wrote

\* restore_layout(LAST_LAYOUT_NAME) has run since, and reached the surface.
UndoAsked ==
    /\ Organized
    /\ last.op = "restore_layout"
    /\ last.arg = LAST_LAYOUT_NAME
    /\ restored.asked

\* C12: one-step undo. An organize that writes positions has saved the last
\* layout before, the saved map holds the name and position of every icon as
\* read at its start, and restoring it right afterwards asks the surface for
\* exactly those positions.
C12_OneStepUndo ==
    /\ Organized =>
          /\ finished.saved
          /\ get_layout(layouts_file, LAST_LAYOUT_NAME) # NoLayout
          /\ HoldsPositionsOf(get_layout(layouts_file, LAST_LAYOUT_NAME).positions,
                              finished.icons)
    /\ UndoAsked => HoldsPositionsOf(restored.positions, finished.icons)

\* The same for a desktop whose icons have pairwise distinct names.
OneStepUndo_DistinctNames ==
    DistinctNames(finished.icons) => C12_OneStepUndo

\* No organize_desktop call writes a position before it has saved the last
\* layout.
SavedBeforeWritten ==
    [][(icons' # icons /\ stack # <<>>) => (Top.saved /\ Top.pc = "arrange")]_vars

\* The organize_desktop call that returned last failed.
Failed == finished.pc \in {"failed", "no monitor"}

\* C13: every failure inside an organize attempt is caught in
\* organize_desktop, which returns with exactly one user-facing message shown
\* for that attempt.
C13_OneMessagePerFailure == Failed => Len(finished.msgs) = 1

\* Every failure but that of the desktop surface being unavailable ends with
\* the one message of the handler; that one shows the error box as well.
OneMessage_UnlessSurfaceUnavailable ==
    Failed => \/ finished.msgs = <<"Error">>
              \/ finished.msgs = <<"critical", "Error">>

\* C14: an I/O failure of the auto-save of the last layout only skips that
\* save: the organize goes on, and the new positions are computed and written
\* to the surface.
C14_SaveFailureOnlySkips ==
    finished.raised = "layout file" => finished.pc = "done" /\ finished.wrote

\* What the code does instead: the failure of the auto-save ends the attempt
\* before anything is written.
SaveFailureEndsAttempt ==
    finished.raised = "layout file" =>
        /\ finished.pc = "failed"
        /\ ~finished.saved
        /\ ~finished.wrote

\* get_desktop_icons of the organize_desktop call that returned last returned
\* no icon.
ReadNoIcons == finished.read /\ Len(finished.icons) = 0

\* C15: when the surface returns zero icons organize is a no-op: no position
\* is written, the saved layouts (the last layout included) and the
\* classifier's group list are unchanged, and the caller gets an
\* informational message.
C15_NoIconsNoOp ==
    ReadNoIcons =>
        /\ finished.pc = "empty"
        /\ finished.msgs = <<"Hint">>
        /\ ~finished.wrote /\ ~finished.saved
        /\ icons = finished.icons_before
        /\ layouts_file = finished.layouts_before
        /\ groups = finished.groups_before

\* An organize of the emptied desktop, with a last layout in the store and the
\* by_extension preset, whose rescan would change the group list.
C15_Witness ==
    /\ ReadNoIcons
    /\ get_layout(layouts_file, LAST_LAYOUT_NAME) # NoLayout
    /\ current_preset = "by_extension"
    /\ groups # apply_preset(PRESETS, groups, "by_extension", desktop_files(icons)).groups

\* The last operation was a save_layout call that wrote the file.
Saved == last.op = "save_layout" /\ last.ret

\* C16: saved-layout round trip. After save_layout(name, icons),
\* get_layout(name) returns a map that holds exactly the pairs of name and
\* position of the icons saved, whatever was saved or deleted before.
C16_RoundTrip ==
    Saved => /\ get_layout(layouts_file, last.arg) # NoLayout
             /\ HoldsPositionsOf(get_layout(layouts_file, last.arg).positions, last.icons)

\* The round trip for an icon list of pairwise distinct names.
RoundTrip_DistinctNames ==
    (Saved /\ DistinctNames(last.icons)) => C16_RoundTrip

\* C17: from an empty store, after any save_layout and delete_layout calls
\* the names in the persisted list are pairwise distinct; saving an existing
\* name replaces that entry in place, its index and every other entry
\* unchanged, and saving a new name appends it at the end.
C17_DistinctNamesInPlace ==
    /\ \A i, j \in 1..Len(layouts_file) :
          layouts_file[i].name = layouts_file[j].name => i = j
    /\ Saved =>
          LET before == last.before
              layout == SavedLayout(last.arg, positions_of(last.icons))
          IN  IF \E i \in 1..Len(before) : before[i].name = last.arg
              THEN /\ Len(layouts_file) = Len(before)
                   /\ \A i \in 1..Len(before) :
                         layouts_file[i] = IF before[i].name = last.arg THEN layout
                                           ELSE before[i]
              ELSE layouts_file = Append(before, layout)

\* A layout saved again as the first of two entries, with other positions than
\* it held before.
C17_Witness ==
    /\ Saved
    /\ Len(last.before) = 2
    /\ last.before[1].name = last.arg
    /\ layouts_file[1].positions # last.before[1].positions
    /\ layouts_file[2] = last.before[2]

(***************************************************************************)
(* The preset store and the classifier, second part (Spec).                *)
(***************************************************************************)
\* The ids of the built-in presets: the ids of the model that do not start
\* with "custom_".
BuiltInIds == DOMAIN BUILTIN_PRESETS

\* C18: no sequence of save_custom_preset, update_custom_preset and
\* delete_custom_preset calls changes or removes a built-in preset: update
\* and delete return False and leave the catalog unchanged for every id
\* without the custom_ prefix, and save_custom_preset writes under an id with
\* that prefix only.
C18_BuiltInsKept ==
    /\ [](\A id \in BuiltInIds : id \in DOMAIN PRESETS /\ PRESETS[id] = BUILTIN_PRESETS[id])
    /\ [](DOMAIN custom_presets \cap BuiltInIds = {})
    /\ [][(/\ ops' = ops + 1
           /\ last'.op \in {"update_custom_preset", "delete_custom_preset"}
           /\ last'.arg \in BuiltInIds)
          => (last'.ret = FALSE /\ PRESETS' = PRESETS /\ custom_presets' = custom_presets)]_vars
    /\ [][(ops' = ops + 1 /\ last'.op = "save_custom_preset" /\ last'.ret)
          => /\ DOMAIN PRESETS' \ DOMAIN PRESETS \subseteq {"custom_" \o last'.arg}
             /\ \A id \in DOMAIN PRESETS \ {"custom_" \o last'.arg} :
                   id \in DOMAIN PRESETS' /\ PRESETS'[id] = PRESETS[id]]_vars

\* update_custom_preset or delete_custom_preset was called with a built-in id
\* while the catalog held a custom preset.
C18_Witness ==
    /\ last.op \in {"update_custom_preset", "delete_custom_preset"}
    /\ last.arg \in BuiltInIds
    /\ "custom_a" \in DOMAIN PRESETS
    /\ "custom_a" \in DOMAIN custom_presets

(***************************************************************************)
(* calculate_positions called twice (CallsSpec).                           *)
(***************************************************************************)
CalledTwice == phase = "organized" /\ again.called

ByName == settings.sort_order \in {"name_asc", "name_desc"}

WouldMatch(g, icon) ==
    matches([g EXCEPT !.enabled = TRUE], icon.extension, icon.is_folder, icon.is_system_icon)

\* C20: classify_icons never returns a group with an empty icon list, and
\* every key of its result is the name of an enabled group; a disabled group
\* never matches an icon and never appears in the result: a name that only
\* disabled groups carry is no key, and every icon of a list was put there by
\* the enabled group of that name that matched it first, or by the fallback.
C20_EnabledNonEmpty ==
    LET result == classify_icons(groups, TestIcons)
        Disabled == {i \in 1..Len(groups) : ~groups[i].enabled}
        Enabled == {i \in 1..Len(groups) : groups[i].enabled}
    IN  /\ \A k \in DOMAIN result : result[k] # <<>>
        /\ \A k \in DOMAIN result : \E i \in Enabled : groups[i].name = k
        /\ \A i \in Disabled : \A n \in 1..Len(TestIcons) :
              ~matches(groups[i], TestIcons[n].extension, TestIcons[n].is_folder,
                       TestIcons[n].is_system_icon)
        /\ \A i \in Disabled :
              (\A j \in Enabled : groups[j].name # groups[i].name) =>
                  groups[i].name \notin DOMAIN result
        /\ \A k \in DOMAIN result : \A n \in 1..Len(result[k]) :
              LET icon == result[k][n]
                  hits == {i \in 1..Len(groups) :
                              matches(groups[i], icon.extension, icon.is_folder,
                                      icon.is_system_icon)}
              IN  IF hits = {} THEN k = FallbackName
                  ELSE LET first == CHOOSE i \in hits : \A j \in hits : i <= j
                       IN  first \in Enabled /\ groups[first].name = k

\* A disabled group would match an icon of the input, an enabled group got no
\* icon, and the result is not empty.
C20_Witness ==
    LET result == classify_icons(groups, TestIcons)
    IN  /\ \E i \in 1..Len(groups) :
              /\ ~groups[i].enabled
              /\ \E n \in 1..Len(TestIcons) : WouldMatch(groups[i], TestIcons[n])
        /\ \E i \in 1..Len(groups) : groups[i].enabled /\ groups[i].name \notin DOMAIN result
        /\ DOMAIN result # {}

(***************************************************************************)
(* The order of the group list (Spec).                                     *)
(***************************************************************************)
Ascending(gs) == \A i \in 1..Len(gs) : \A j \in i..Len(gs) : gs[i].priority <= gs[j].priority

\* post is pre sorted by priority with the groups of equal priority in the
\* order they have in pre.
IsStableSortOf(pre, post) ==
    /\ Len(post) = Len(pre)
    /\ Ascending(post)
    /\ \A k \in 1..Len(pre) :
          SelectSeq(post, LAMBDA g : g.priority = pre[k].priority)
             = SelectSeq(pre, LAMBDA g : g.priority = pre[k].priority)

RemoveAt(seq, i) == SubSeq(seq, 1, i - 1) \o SubSeq(seq, i + 1, Len(seq))

\* C21: after every add_group, set_group_priority and from_dict the group
\* list is in ascending priority order with the groups of equal priority in
\* the order they had before the re-sort; remove_group, set_group_enabled
\* and set_group_start_side do not change the order of the remaining groups.
C21_StableAscending ==
    LET before == last.before
        i == group_index(before, last.arg)
    IN  /\ last.op = "add_group" =>
              \E k \in 1..Len(groups) :
                  /\ groups[k].name = last.arg
                  /\ IsStableSortOf(Append(before, groups[k]), groups)
        /\ last.op = "set_group_priority" =>
              /\ Ascending(groups)
              /\ last.ret =>
                    \E k \in 1..Len(groups) :
                        IsStableSortOf([before EXCEPT ![i].priority = groups[k].priority],
                                       groups)
              /\ ~last.ret => groups = before
        /\ last.op = "from_dict" =>
              /\ Ascending(groups)
              /\ IF last.ret
                 THEN IsStableSortOf([k \in 1..Len(classifier_data.groups) |->
                                         SpecifiedGroup(classifier_data.groups[k])], groups)
                 ELSE groups = before
        /\ last.op = "remove_group" =>
              IF last.ret THEN groups = RemoveAt(before, i) ELSE groups = before
        /\ last.op = "set_group_enabled" =>
              /\ Len(groups) = Len(before)
              /\ \A k \in 1..Len(before) :
                    groups[k] = [before[k] EXCEPT !.enabled = groups[k].enabled]
        /\ last.op = "set_group_start_side" =>
              /\ Len(groups) = Len(before)
              /\ \A k \in 1..Len(before) :
                    groups[k] = [before[k] EXCEPT !.start_from_right = groups[k].start_from_right]

\* set_group_priority moved a group to another place in the list, next to a
\* group of the priority it was given.
C21_Witness ==
    /\ last.op = "set_group_priority"
    /\ last.ret
    /\ \A k \in 1..Len(groups) : groups[k].name = last.arg => last.before[k].name # last.arg
    /\ \E k \in 1..(Len(groups) - 1) :
          /\ groups[k].priority = groups[k + 1].priority
          /\ groups[k + 1].name = last.arg

(***************************************************************************)
(* The classifier document (Spec).                                         *)
(***************************************************************************)
GroupFields == {"name", "extensions", "enabled", "is_folder_group", "is_shortcut_group",
                "is_system_group", "priority", "start_from_right", "merge_group"}

\* The two lists hold the same groups in the same order, field by field.
SameGroups(a, b) ==
    /\ Len(a) = Len(b)
    /\ \A i \in 1..Len(a) :
          /\ DOMAIN a[i] = GroupFields
          /\ DOMAIN b[i] = GroupFields
          /\ \A f \in GroupFields : a[i][f] = b[i][f]

\* C22: in every classifier state the group operations reach,
\* from_dict(to_dict()) yields the same groups in the same order with every
\* field equal to the original; so does a from_dict of the document that was
\* saved from the list it is called on.
C22_DocumentRoundTrip ==
    /\ SameGroups(from_dict(<<>>, to_dict(groups)), groups)
    /\ (last.op = "from_dict" /\ classifier_data = to_dict(last.before)) =>
           SameGroups(groups, last.before)

\* from_dict has loaded the document saved from a list that is not the default
\* one and holds a merge id or a disabled group.
C22_Witness ==
    /\ last.op = "from_dict"
    /\ last.ret
    /\ classifier_data = to_dict(last.before)
    /\ groups # DEFAULT_GROUPS
    /\ \E i \in 1..Len(groups) : groups[i].merge_group # "" \/ ~groups[i].enabled

(***************************************************************************)
(* The search for a free cell (GridSpec).                                  *)
(***************************************************************************)
\* The cells of the scan from a preferred cell: the preferred cell and the
\* ones below it in its column, then every other column.
ScanCells(preferred, max_cols, max_rows) ==
    {c \in GridCells(max_cols, max_rows) :
        \/ c[1] = preferred[1] /\ c[2] >= preferred[2]
        \/ c[1] # preferred[1]}

\* How far a cell is along that scan: columns follow in the placement
\* direction and wrap to the opposite edge, each column from the top.
ScanRank(c, preferred, from_right, max_cols, max_rows) ==
    (IF from_right THEN (preferred[1] - c[1]) % max_cols
                   ELSE (c[1] - preferred[1]) % max_cols) * max_rows + c[2]

FirstOfScan(k) ==
    LET e == calc.log[k]
        free == ScanCells(e.preferred, calc.max_cols, calc.max_rows) \ OccupiedBefore(k)
    IN  \A d \in free :
            /\ e.cell \in free
            /\ ScanRank(e.cell, e.preferred, settings.start_from_right,
                        calc.max_cols, calc.max_rows)
                 <= ScanRank(d, e.preferred, settings.start_from_right,
                             calc.max_cols, calc.max_rows)

\* C23: VERTICAL: an icon whose preferred cell is occupied is placed in the
\* first free cell of the scan from the preferred cell downward in its
\* column, then through the following columns in the placement direction
\* (leftward with start_from_right), wrapping to the opposite edge.
C23_ScanInPlacementDirection ==
    (Calculated /\ settings.direction = "vertical") =>
        \A k \in 1..Len(calc.log) :
            calc.log[k].preferred \in OccupiedBefore(k) => FirstOfScan(k)

\* What does hold: the same without start_from_right.
ScanRightward_FromLeft ==
    (Calculated /\ settings.direction = "vertical" /\ ~settings.start_from_right) =>
        \A k \in 1..Len(calc.log) :
            calc.log[k].preferred \in OccupiedBefore(k) => FirstOfScan(k)

(***************************************************************************)
(* The columns (rows) of the placement units (GridSpec).                   *)
(***************************************************************************)
\* The log entries of the icons that were placed.
PlacedEntries == {k \in 1..Len(calc.log) : calc.log[k].cell # NoCell}

\* The line of a cell across the placement direction: its column in
\* VERTICAL, its row in HORIZONTAL.
LineOf(cell) == IF settings.direction = "vertical" THEN cell[1] ELSE cell[2]

\* No column (row) holds icons of two placement units.
OwnLines ==
    \A a \in PlacedEntries : \A b \in PlacedEntries :
        calc.log[a].unit # calc.log[b].unit =>
            LineOf(calc.log[a].cell) # LineOf(calc.log[b].cell)

\* The units need no more columns (rows) than the grid has.
LinesFit ==
    IF settings.direction = "vertical"
    THEN ColsOfFirst(calc.units, calc.max_rows, Len(calc.units)) <= calc.max_cols
    ELSE ColsOfFirst(calc.units, calc.max_cols, Len(calc.units)) <= calc.max_rows

C25_MarginsUnusedWithOrigin ==
    (CalledTwice /\ given_origin # NoOrigin) => again.positions = calc.positions

\* The grid of the call with the margins m on all four sides.
GridWith(m) ==
    <<Max(1, (work_area[3] - work_area[1] - 2 * m) \div icon_spacing[1]),
      Max(1, (work_area[4] - work_area[2] - 2 * m) \div icon_spacing[2])>>

\* What does hold: the maps are equal when the margins leave the number of
\* columns and rows the same.
MarginsUnused_SameGrid ==
    (CalledTwice /\ given_origin # NoOrigin
        /\ \A m \in Margins : GridWith(m) = <<calc.max_cols, calc.max_rows>>)
        => again.positions = calc.positions

(***************************************************************************)
(* The HORIZONTAL branch (GridSpec).                                       *)
(***************************************************************************)
RECURSIVE IconsOfFirst(_, _)
\* how many icons the first j units hold
IconsOfFirst(units, j) ==
    IF j = 0 THEN 0 ELSE IconsOfFirst(units, j - 1) + Len(units[j].names)

\* The row cursor a unit starts with: 0, then the cursor left by the unit
\* before it.
RowCursorAt(j) == IF j = 1 THEN 0 ELSE calc.cursors[j - 1]

\* C26: HORIZONTAL: the units are processed in priority order from the top
\* row; the i-th icon of a unit has preferred row
\* min(maxRows-1, cursor + i div maxCols) and preferred column i mod maxCols
\* (maxCols-1 - (i mod maxCols) with start_from_right), it is placed there
\* whenever that cell is free, and after each unit the row cursor advances by
\* ceil(n / maxCols), clamped to maxRows-1.
C26_HorizontalClosedForm ==
    (Calculated /\ settings.direction = "horizontal") =>
        LET units == calc.units
            max_cols == calc.max_cols
            max_rows == calc.max_rows
        IN  /\ Len(calc.log) = IconsOfFirst(units, Len(units))
            /\ Len(calc.cursors) = Len(units)
            /\ \A j \in 1..Len(units) :
                  LET n == Len(units[j].names)
                  IN  /\ calc.cursors[j] = Min(max_rows - 1, RowCursorAt(j) + Ceil(n, max_cols))
                      /\ \A i \in 0..(n - 1) :
                            LET k == IconsOfFirst(units, j - 1) + i + 1
                                e == calc.log[k]
                                col == IF settings.start_from_right
                                       THEN max_cols - 1 - (i % max_cols)
                                       ELSE i % max_cols
                                row == Min(max_rows - 1, RowCursorAt(j) + (i \div max_cols))
                            IN  /\ e.name = units[j].names[i + 1]
                                /\ e.unit = units[j].id
                                /\ e.preferred = <<col, row>>
                                /\ <<col, row>> \notin OccupiedBefore(k) => e.cell = <<col, row>>

\* HORIZONTAL with start_from_right: a unit of more icons than the grid has
\* columns, and a unit after it that starts below its rows.
C26_Witness ==
    /\ Calculated
    /\ settings.direction = "horizontal"
    /\ settings.start_from_right
    /\ Len(calc.units) >= 2
    /\ Len(calc.units[1].names) > calc.max_cols
    /\ calc.cursors[1] = 2
    /\ \E k \in 1..Len(calc.log) :
          calc.log[k].unit = calc.units[2].id /\ calc.log[k].cell = <<calc.max_cols - 1, 2>>

(***************************************************************************)
(* The placement units (LayoutSpec).                                       *)
(***************************************************************************)
\* The names of the icons classify puts into the group at position i.
IconsOfGroup(i) ==
    {icons[n].name : n \in {m \in 1..Len(icons) :
        classify(groups, icons[m].extension, icons[m].is_folder, icons[m].is_system_icon)
            = groups[i].name}}

\* The enabled groups that have icons.
ActiveIndexes == {i \in 1..Len(groups) : groups[i].enabled /\ IconsOfGroup(i) # {}}

\* The groups whose key is met for the first time in the scan of the list.
UnitHeads ==
    {i \in ActiveIndexes :
        \/ groups[i].merge_group = ""
        \/ \A j \in ActiveIndexes : j < i => groups[j].merge_group # groups[i].merge_group}

\* The groups of the unit a head opens.
MembersOf(h) ==
    IF groups[h].merge_group = "" THEN {h}
    ELSE {j \in ActiveIndexes : groups[j].merge_group = groups[h].merge_group}

\* C27: the placement units are ordered by the first occurrence of their key
\* in the scan of the groups in priority order: a merged unit stands where
\* its first member group with icons stands and holds the icons of all its
\* members, a later member opens no unit, a group with an empty merge_group is
\* a unit of its own, and every unit has at least one icon.
C27_UnitsByFirstOccurrence ==
    Calculated =>
        LET units == calc.units
        IN  /\ Len(units) = Cardinality(UnitHeads)
            /\ \A k \in 1..Len(units) :
                  LET h == CHOOSE i \in UnitHeads :
                               Cardinality({x \in UnitHeads : x < i}) = k - 1
                  IN  /\ units[k].id = IF groups[h].merge_group = "" THEN groups[h].name
                                       ELSE groups[h].merge_group
                      /\ Len(units[k].names) >= 1
                      /\ {units[k].names[n] : n \in 1..Len(units[k].names)}
                            = UNION {IconsOfGroup(j) : j \in MembersOf(h)}
                      /\ Len(units[k].names)
                            = Cardinality(UNION {IconsOfGroup(j) : j \in MembersOf(h)})

\* The first and the last group are merged, the one between them is not, and
\* all three have icons: the merged unit comes first and holds the icons of
\* both its members.
C27_Witness ==
    /\ Calculated
    /\ Len(groups) = 3
    /\ groups[1].merge_group # ""
    /\ groups[1].merge_group = groups[3].merge_group
    /\ groups[2].merge_group = ""
    /\ ActiveIndexes = {1, 2, 3}
    /\ Len(calc.units) = 2
    /\ calc.units[1].id = groups[1].merge_group
    /\ calc.units[2].id = groups[2].name

(***************************************************************************)
(* The cells and the cursor stay in the grid (GridSpec).                   *)
(***************************************************************************)
\* The width and height left of the work area by the margins.
Available ==
    <<work_area[3] - work_area[1] - settings.margin_left - settings.margin_right,
      work_area[4] - work_area[2] - settings.margin_top - settings.margin_bottom>>

\* C28: every position calculate_positions returns is origin + (col*h, row*v)
\* for a cell with 0 <= col <= maxCols-1 and 0 <= row <= maxRows-1, the unit
\* cursor is inside [0, maxCols-1] (VERTICAL) or [0, maxRows-1] (HORIZONTAL)
\* after every unit, and when the origin is derived from the margins and the
\* available width and height are at least one spacing, every placed cell
\* lies inside the work area minus the margins.
C28_InsideGrid ==
    Calculated =>
        LET h == icon_spacing[1]
            v == icon_spacing[2]
        IN  /\ DOMAIN calc.positions = {calc.log[k].name : k \in PlacedEntries}
            /\ \A k \in PlacedEntries :
                  LET cell == calc.log[k].cell
                      pos == calc.positions[calc.log[k].name]
                  IN  /\ cell[1] \in 0..(calc.max_cols - 1)
                      /\ cell[2] \in 0..(calc.max_rows - 1)
                      /\ pos = <<calc.origin[1] + cell[1] * h, calc.origin[2] + cell[2] * v>>
                      /\ (given_origin = NoOrigin /\ Available[1] >= h /\ Available[2] >= v) =>
                            /\ pos[1] >= work_area[1] + settings.margin_left
                            /\ pos[1] + h <= work_area[3] - settings.margin_right
                            /\ pos[2] >= work_area[2] + settings.margin_top
                            /\ pos[2] + v <= work_area[4] - settings.margin_bottom
            /\ \A j \in 1..Len(calc.cursors) :
                  calc.cursors[j] \in 0..((IF settings.direction = "vertical"
                                           THEN calc.max_cols ELSE calc.max_rows) - 1)

\* The origin comes from wide margins that leave room for a cell, the units
\* need more columns (rows) than the grid has, and an icon was placed in the
\* last column (row) the cursor was clamped to.
C28_Witness ==
    /\ Calculated
    /\ given_origin = NoOrigin
    /\ settings.margin_left = 70
    /\ Available[1] >= icon_spacing[1]
    /\ Available[2] >= icon_spacing[2]
    /\ ~settings.start_from_right
    /\ ~LinesFit
    /\ Len(calc.units) >= 2
    /\ \E k \in PlacedEntries :
          /\ calc.log[k].unit = calc.units[Len(calc.units)].id
          /\ LineOf(calc.log[k].cell) = (IF settings.direction = "vertical"
                                         THEN calc.max_cols ELSE calc.max_rows) - 1

(***************************************************************************)
(* Custom presets: save, apply and update (Spec).                          *)
(***************************************************************************)
\* apply_preset has just applied a custom preset that holds the snapshot of
\* the list it was called on: save_custom_preset (or update_custom_preset)
\* stored that list and no operation changed it since.
AppliedOwnSnapshot ==
    /\ last.op = "apply_preset"
    /\ last.ret
    /\ is_custom_id(last.arg)
    /\ last.arg \in DOMAIN PRESETS
    /\ PRESETS[last.arg].groups = groups_data(last.before)

\* C29: save_custom_preset(name, classifier) followed by
\* apply_preset(classifier, "custom_" + name) restores a group list equal to
\* the snapshot in order and in every IconGroup field, including enabled,
\* priority, merge_group and start_from_right.
C29_PresetRoundTrip == AppliedOwnSnapshot => SameGroups(groups, last.before)

\* What does hold: the list is the snapshot in order and in every field but
\* start_from_right, which is False on every group.
PresetRoundTrip_UpToStartSide ==
    AppliedOwnSnapshot =>
        SameGroups(groups, [i \in 1..Len(last.before) |->
                               [last.before[i] EXCEPT !.start_from_right = FALSE]])

\* The entries of presets other than preset_id are those of before.
OthersKept(before, presets, preset_id) ==
    /\ DOMAIN presets \ {preset_id} = DOMAIN before \ {preset_id}
    /\ \A id \in DOMAIN before \ {preset_id} : presets[id] = before[id]

\* C30: update_custom_preset on an existing custom preset replaces its stored
\* groups with the classifier's current group list, keeps its display name
\* and its id and leaves every other preset of the catalog unchanged; on an
\* id that is not in the catalog it returns False and changes nothing.
C30_UpdateKeepsTheRest ==
    [][(ops' = ops + 1 /\ last'.op = "update_custom_preset") =>
          LET preset_id == last'.arg
          IN  /\ groups' = groups
              /\ (preset_id \in DOMAIN PRESETS /\ is_custom_id(preset_id)) =>
                    /\ last'.ret
                    /\ preset_id \in DOMAIN PRESETS'
                    /\ PRESETS'[preset_id].groups = to_dict(groups).groups
                    /\ PRESETS'[preset_id].name = PRESETS[preset_id].name
                    /\ OthersKept(PRESETS, PRESETS', preset_id)
                    /\ preset_id \in DOMAIN custom_presets'
                    /\ custom_presets'[preset_id] = PRESETS'[preset_id]
                    /\ OthersKept(custom_presets, custom_presets', preset_id)
              /\ preset_id \notin DOMAIN PRESETS =>
                    /\ ~last'.ret
                    /\ PRESETS' = PRESETS
                    /\ custom_presets' = custom_presets]_vars

\* update_custom_preset has replaced the groups of an existing custom preset
\* by a list that is not the one it was saved from.
C30_Witness ==
    /\ last.op = "update_custom_preset"
    /\ last.ret
    /\ groups # DEFAULT_GROUPS
    /\ last.arg \in DOMAIN PRESETS
    /\ PRESETS[last.arg].groups = to_dict(groups).groups
    /\ PRESETS[last.arg].name = "Custom: a"

====
